---- MODULE Spec2Model ----
(***************************************************************************)
(* safestructures: the recursive, type-dispatched codec engine             *)
(* (Serializer, the DataProcessor family, the type-key resolver and the    *)
(* default registry), modelled from src/src/safestructures.                *)
(*                                                                         *)
(* Python objects are records of one shape, so that any two of them can be *)
(* compared:  t     the object's type (a type record),                     *)
(*            i     the payload of an int,                                 *)
(*            s     the payload of a str,                                  *)
(*            b     the payload of a bool,                                 *)
(*            keys  the keys of a dict / the field names of a dataclass,   *)
(*                  in insertion / declaration order,                      *)
(*            items the elements of a list or tuple, the values of a dict, *)
(*                  the field values of a dataclass, the cells of an array.*)
(* A schema node is an ordinary Python dict {"type": .., "value": .., ..}, *)
(* and so is the tensor store.                                             *)
(***************************************************************************)
EXTENDS Integers, Sequences, FiniteSets, TLC

(***************************************************************************)
(* Bounds of the model.                                                    *)
(***************************************************************************)
\* longest list / tuple / dict among the inputs
MaxLen == 2
\* deepest nesting of containers among the inputs
MaxDepth == 2
\* ints of the inputs are 0 .. MaxInt
MaxInt == 2
\* frames the interpreter allows before RecursionError
MaxCallDepth == 3

(***************************************************************************)
(* Types.  A type object is a record; str(T) of a type is another record   *)
(* of kind "str", so a dict keyed by both never confuses the two.          *)
(***************************************************************************)
Ty(module, name) == [kind |-> "type", module |-> module, name |-> name]

StrOfType(T) == [kind |-> "str", module |-> T.module, name |-> T.name]

NoneType == Ty("builtins", "NoneType")
BoolT == Ty("builtins", "bool")
StrT == Ty("builtins", "str")
IntT == Ty("builtins", "int")
FloatT == Ty("builtins", "float")
ComplexT == Ty("builtins", "complex")
ListT == Ty("builtins", "list")
SetT == Ty("builtins", "set")
TupleT == Ty("builtins", "tuple")
DictT == Ty("builtins", "dict")
BytesT == Ty("builtins", "bytes")
NdarrayT == Ty("numpy", "ndarray")

\* the Protocol class that stands for "any dataclass"
Dataclass == Ty("safestructures.processors.iterable", "Dataclass")

\* the class dataclasses.make_dataclass("Dataclass", fields) builds
GenericDataclass == Ty("types", "Dataclass")

\* a user's dataclass without a processor of its own
TestDC == Ty("test_iterable", "TestDC")

\* the plugin types of tests/test_plugin.py (dataclasses)
ModelOutput == Ty("transformers.utils.generic", "ModelOutput")
BertOutput == Ty("transformers.modeling_outputs", "BaseModelOutputWithPoolingAndCrossAttentions")
BertEncoderOutput == Ty("transformers.modeling_outputs", "BaseModelOutputWithPastAndCrossAttentions")

\* unittest.mock.Mock, the (non-dataclass) type of tests/test_wrapper.py's plugin
Mock == Ty("unittest.mock", "Mock")

\* collections.OrderedDict: a subclass of dict, without a processor of its own
OrderedDict == Ty("collections", "OrderedDict")

DataclassTypes == {TestDC, GenericDataclass, ModelOutput, BertOutput, BertEncoderOutput}

\* attributes of the builtins module that the resolver can return
BuiltinNames == {"bool", "str", "int", "float", "complex", "list", "set", "tuple", "dict", "bytes"}

\* every class importlib can reach in the model's world
ImportWorld == {NdarrayT, Dataclass, GenericDataclass, ModelOutput, BertOutput, BertEncoderOutput, Mock,
                OrderedDict}
                 \cup {Ty("builtins", n) : n \in BuiltinNames}

(***************************************************************************)
(* constants.py                                                            *)
(***************************************************************************)
TYPE_FIELD == "type"
VALUE_FIELD == "value"
KEYS_FIELD == "keys"
SCHEMA_FIELD == "_safestructures_schema_"
VERSION_FIELD == "_safestructures_schema_version_"
SCHEMA_VERSION == "1.0.0"
DATACLASS_NAME == "Dataclass"
SAVE == "save"
LOAD == "load"
\* Serializer.mode before any pass: None
NoMode == "None"
\* a value of Serializer.mode that is no member of Mode
OtherMode == "other"

(***************************************************************************)
(* Python objects.                                                         *)
(***************************************************************************)
Obj(t, i, s, b, keys, items) ==
    [t |-> t, i |-> i, s |-> s, b |-> b, keys |-> keys, items |-> items]

PyNone == Obj(NoneType, 0, "", FALSE, <<>>, <<>>)
PyBool(x) == Obj(BoolT, 0, "", x, <<>>, <<>>)
PyStr(x) == Obj(StrT, 0, x, FALSE, <<>>, <<>>)
PyInt(n) == Obj(IntT, n, "", FALSE, <<>>, <<>>)
PyList(xs) == Obj(ListT, 0, "", FALSE, <<>>, xs)
PyTuple(xs) == Obj(TupleT, 0, "", FALSE, <<>>, xs)
PyDict(ks, vs) == Obj(DictT, 0, "", FALSE, ks, vs)
\* np.array(cells)
NdArray(cells) == Obj(NdarrayT, 0, "", FALSE, <<>>, cells)
\* an instance of class T with the given fields
Instance(T, names, vals) == Obj(T, 0, "", FALSE, names, vals)

EmptyDict == PyDict(<<>>, <<>>)

\* dataclasses.is_dataclass(data)
is_dataclass(data) == data.t \in DataclassTypes

\* hash(x) succeeds: x can be a dict key
RECURSIVE Hashable(_)
Hashable(x) ==
    IF x.t \in {ListT, DictT, SetT, NdarrayT} THEN FALSE
    ELSE IF x.t = TupleT THEN \A n \in 1..Len(x.items) : Hashable(x.items[n])
    ELSE TRUE

\* a == b for two dict keys: bool is an int (True == 1), tuples compare
\* element by element, everything else by type and content
RECURSIVE KeyEq(_, _)
KeyEq(a, b) ==
    IF a.t \in {IntT, BoolT} /\ b.t \in {IntT, BoolT}
    THEN (IF a.t = IntT THEN a.i ELSE IF a.b THEN 1 ELSE 0)
         = (IF b.t = IntT THEN b.i ELSE IF b.b THEN 1 ELSE 0)
    ELSE IF a.t = TupleT /\ b.t = TupleT
    THEN /\ Len(a.items) = Len(b.items)
         /\ \A n \in 1..Len(a.items) : KeyEq(a.items[n], b.items[n])
    ELSE a = b

(***************************************************************************)
(* dict operations (insertion ordered)                                     *)
(***************************************************************************)
\* the positions of key k in dict d (at most one)
DictPos(d, k) == {n \in 1..Len(d.keys) : KeyEq(d.keys[n], k)}

\* k in d
DictHas(d, k) == DictPos(d, k) # {}

\* d[k], for k in d
DictGet(d, k) == d.items[CHOOSE n \in DictPos(d, k) : TRUE]

\* d[k] = v: an existing key keeps its place and its key object
DictSet(d, k, v) ==
    IF DictHas(d, k)
    THEN [d EXCEPT !.items[CHOOSE n \in DictPos(d, k) : TRUE] = v]
    ELSE [d EXCEPT !.keys = Append(d.keys, k), !.items = Append(d.items, v)]

\* d.update(e)
RECURSIVE DictUpdate(_, _)
DictUpdate(d, e) ==
    IF Len(e.keys) = 0 THEN d
    ELSE DictUpdate(DictSet(d, e.keys[1], e.items[1]),
                    [e EXCEPT !.keys = Tail(e.keys), !.items = Tail(e.items)])

\* d without the key k
DictWithout(d, k) ==
    LET keep == {n \in 1..Len(d.keys) : ~KeyEq(d.keys[n], k)}
        F[n \in 0..Len(d.keys)] ==
            IF n = 0 THEN <<>>
            ELSE IF n \in keep THEN Append(F[n - 1], n) ELSE F[n - 1]
        idx == F[Len(d.keys)]
    IN [d EXCEPT !.keys = [j \in 1..Len(idx) |-> d.keys[idx[j]]],
                 !.items = [j \in 1..Len(idx) |-> d.items[idx[j]]]]

(***************************************************************************)
(* str(), repr() and int()                                                 *)
(***************************************************************************)
Digit == <<"0", "1", "2", "3", "4", "5", "6", "7", "8", "9">>

RECURSIVE IntToStr(_)
IntToStr(n) ==
    IF n < 0 THEN "-" \o IntToStr(0 - n)
    ELSE IF n < 10 THEN Digit[n + 1]
    ELSE IntToStr(n \div 10) \o Digit[(n % 10) + 1]

RECURSIVE PyRepr(_)
RECURSIVE JoinRepr(_)
RECURSIVE JoinItems(_, _)
\* repr(x1) + ", " + repr(x2) + ...
JoinRepr(xs) ==
    IF Len(xs) = 0 THEN ""
    ELSE IF Len(xs) = 1 THEN PyRepr(xs[1])
    ELSE PyRepr(xs[1]) \o ", " \o JoinRepr(Tail(xs))

\* repr(k1) + ": " + repr(v1) + ", " + ...
JoinItems(ks, vs) ==
    IF Len(ks) = 0 THEN ""
    ELSE IF Len(ks) = 1 THEN PyRepr(ks[1]) \o ": " \o PyRepr(vs[1])
    ELSE PyRepr(ks[1]) \o ": " \o PyRepr(vs[1]) \o ", " \o JoinItems(Tail(ks), Tail(vs))

\* repr(x); an object without a literal form shows its class
PyRepr(x) ==
    CASE x.t = NoneType -> "None"
      [] x.t = BoolT -> IF x.b THEN "True" ELSE "False"
      [] x.t = IntT -> IntToStr(x.i)
      [] x.t = StrT -> "'" \o x.s \o "'"
      [] x.t = TupleT -> IF Len(x.items) = 1
                         THEN "(" \o PyRepr(x.items[1]) \o ",)"
                         ELSE "(" \o JoinRepr(x.items) \o ")"
      [] x.t = ListT -> "[" \o JoinRepr(x.items) \o "]"
      [] x.t = DictT -> "{" \o JoinItems(x.keys, x.items) \o "}"
      [] OTHER -> "<" \o x.t.name \o ">"

\* str(x): a str is itself, everything else is its repr
PyStrOf(x) == IF x.t = StrT THEN x.s ELSE PyRepr(x)

\* the ints int(s) can yield in the model
ParseRange == (0 - (MaxInt + 10))..(MaxInt + 10)

\* int(s) succeeds
IntParses(s) == \E n \in ParseRange : IntToStr(n) = s

\* int(s)
ParseInt(s) == CHOOSE n \in ParseRange : IntToStr(n) = s

(***************************************************************************)
(* Processor classes.  base names the class whose serialize / deserialize  *)
(* / get_schema_type the class inherits.                                   *)
(***************************************************************************)
Processor(name, base, data_type) == [name |-> name, base |-> base, data_type |-> data_type]

IntProcessor == Processor("IntProcessor", "NumberProcessor", IntT)
FloatProcessor == Processor("FloatProcessor", "NumberProcessor", FloatT)
ComplexProcessor == Processor("ComplexProcessor", "NumberProcessor", ComplexT)
StringProcessor == Processor("StringProcessor", "PassthroughProcessor", StrT)
BoolProcessor == Processor("BoolProcessor", "PassthroughProcessor", BoolT)
NoneProcessor == Processor("NoneProcessor", "PassthroughProcessor", NoneType)
ListProcessor == Processor("ListProcessor", "ListBaseProcessor", ListT)
SetProcessor == Processor("SetProcessor", "ListBaseProcessor", SetT)
TupleProcessor == Processor("TupleProcessor", "ListBaseProcessor", TupleT)
DictProcessor == Processor("DictProcessor", "DictProcessor", DictT)
DataclassProcessor == Processor("DataclassProcessor", "DataclassProcessor", Dataclass)
NumpyProcessor == Processor("NumpyProcessor", "TensorProcessor", NdarrayT)

\* tests/test_plugin.py
BertOutputProcessor == Processor("BertOutputProcessor", "ModelOutputProcessor", BertOutput)
BertEncoderOutputProcessor == Processor("BertEncoderOutputProcessor", "ModelOutputProcessor", BertEncoderOutput)
\* a second plugin class declaring the type BertOutputProcessor declares
SecondBertOutputProcessor == Processor("SecondBertOutputProcessor", "ModelOutputProcessor", BertOutput)
\* tests/test_wrapper.py
MockPlugin == Processor("MockPlugin", "MockPlugin", Mock)
\* plugins that declare a type the default registry already serves
MyIntProcessor == Processor("MyIntProcessor", "NumberProcessor", IntT)
MyDictProcessor == Processor("MyDictProcessor", "DictProcessor", DictT)
\* subclasses of DataclassProcessor for TestDC that overload serialize_extra
\* against its contract: it returns [], {"type": "x"}, {"value": "x"}, {1: "x"}
ListExtraProcessor == Processor("ListExtraProcessor", "DataclassProcessor", TestDC)
TypeExtraProcessor == Processor("TypeExtraProcessor", "DataclassProcessor", TestDC)
ValueExtraProcessor == Processor("ValueExtraProcessor", "DataclassProcessor", TestDC)
IntKeyExtraProcessor == Processor("IntKeyExtraProcessor", "DataclassProcessor", TestDC)
\* no processor
NoProcessor == Processor("", "", NoneType)

\* mapping[processor.data_type] = processor
register_processor(mapping, processor) ==
    [k \in DOMAIN mapping \cup {processor.data_type} |->
        IF k = processor.data_type THEN processor ELSE mapping[k]]

RECURSIVE RegisterAll(_, _)
RegisterAll(mapping, cls_list) ==
    IF Len(cls_list) = 0 THEN mapping
    ELSE RegisterAll(register_processor(mapping, cls_list[1]), Tail(cls_list))

EmptyMap == [k \in {} |-> IntProcessor]

basic_cls_list ==
    <<IntProcessor, FloatProcessor, ComplexProcessor, StringProcessor, BoolProcessor, NoneProcessor>>

iterable_cls_list ==
    <<ListProcessor, SetProcessor, TupleProcessor, DictProcessor, DataclassProcessor>>

\* defaults.DEFAULT_PROCESS_MAP as the module builds it at import (numpy only)
DefaultProcessMap ==
    register_processor(
        RegisterAll(RegisterAll(EmptyMap, basic_cls_list), iterable_cls_list),
        NumpyProcessor)

(***************************************************************************)
(* utils/module.py and Serializer._get_data_type                           *)
(***************************************************************************)
\* module + "." + qualname
DottedPath(T) == T.module \o "." \o T.name

\* the dotted path for every class, the builtins included
get_dotted_path(data_type) == DottedPath(data_type)

get_import_path(data_type) ==
    IF data_type = Dataclass THEN DATACLASS_NAME
    ELSE IF data_type.module = "builtins" THEN data_type.name
    ELSE DottedPath(data_type)

\* the strings importlib + getattr can resolve
Importable(type_str) == \E T \in ImportWorld : DottedPath(T) = type_str

\* _get_data_type does not raise ImportError
Resolves(type_str) ==
    \/ type_str \in {"None", "NoneType"}
    \/ type_str = DATACLASS_NAME
    \/ type_str \in BuiltinNames
    \/ Importable(type_str)

_get_data_type(type_str) ==
    IF type_str \in {"None", "NoneType"} THEN NoneType
    ELSE IF type_str = DATACLASS_NAME THEN Dataclass
    ELSE IF type_str \in BuiltinNames THEN Ty("builtins", type_str)
    ELSE CHOOSE T \in ImportWorld : DottedPath(T) = type_str

(***************************************************************************)
(* Outcome of a call: the exception raised (exc = "" when none, why tells  *)
(* two exceptions of one class apart), the value returned, and the tensor  *)
(* store as the call leaves it.                                            *)
(***************************************************************************)
Return(ret, tensors) == [exc |-> "", why |-> "", ret |-> ret, tensors |-> tensors]

Raise(exc, why, tensors) == [exc |-> exc, why |-> why, ret |-> PyNone, tensors |-> tensors]

(***************************************************************************)
(* processors/tensor.py and TensorProcessor (processors/base.py)           *)
(***************************************************************************)
\* NumpyProcessor.to_cpu: passthrough
to_cpu(proc, tensor) == tensor

\* NumpyProcessor.to_numpy: passthrough
to_numpy(proc, tensor) == tensor

RECURSIVE TensorSerialize(_, _, _, _)

\* self.serializer.tensors[_id] = <what self.serialize(tensor) returned>; return _id
StoreTensor(_id, r) ==
    IF r.exc # "" THEN r
    ELSE Return(PyStr(_id), DictSet(r.tensors, PyStr(_id), r.ret))

\* TensorProcessor.process_tensor; depth counts the frames on the stack.
\* _id is taken first, and the right-hand side self.serialize(tensor) is
\* evaluated before the store is written.
process_tensor(proc, tensors, tensor, depth) ==
    StoreTensor(IntToStr(Len(tensors.keys)), TensorSerialize(proc, tensors, tensor, depth + 1))

\* TensorProcessor.serialize
TensorSerialize(proc, tensors, tensor, depth) ==
    IF depth >= MaxCallDepth THEN Raise("RecursionError", "maximum recursion depth exceeded", tensors)
    ELSE process_tensor(proc, tensors, to_numpy(proc, to_cpu(proc, tensor)), depth + 1)

\* the number of times process_tensor is entered by TensorProcessor.serialize
\* called with depth frames on the stack, until the stack is exhausted
RECURSIVE process_tensor_calls(_)
process_tensor_calls(depth) ==
    IF depth >= MaxCallDepth THEN 0 ELSE 1 + process_tensor_calls(depth + 2)

\* TensorProcessor.deserialize
TensorDeserialize(proc, tensors, tensor_id) ==
    IF DictHas(tensors, tensor_id) THEN Return(DictGet(tensors, tensor_id), tensors)
    ELSE Raise("KeyError", "tensor id", tensors)

(***************************************************************************)
(* DataProcessor.get_schema_type and its DataclassProcessor override       *)
(***************************************************************************)
get_schema_type(proc, data) ==
    IF proc.base \in {"DataclassProcessor", "ModelOutputProcessor"}
    THEN proc.data_type.name
    ELSE get_import_path(proc.data_type)

\* the processor's deserialize takes **kwargs
AcceptsKwargs(proc) == proc.base \notin {"NumberProcessor", "PassthroughProcessor", "MockPlugin"}

(***************************************************************************)
(* The recursion: Serializer.serialize / deserialize, DataProcessor.__call__*)
(* and the processors' serialize / serialize_extra / deserialize.          *)
(* pm is Serializer.process_map, mode is Serializer.mode; the tensor store *)
(* is threaded through the calls.                                          *)
(***************************************************************************)
RECURSIVE Serialize(_, _, _, _)
RECURSIVE Deserialize(_, _, _, _)
RECURSIVE SerializeAppend(_, _, _, _, _)
RECURSIVE SerializeInto(_, _, _, _, _, _)
RECURSIVE DeserializeAppend(_, _, _, _, _)
RECURSIVE DeserializeFields(_, _, _, _, _, _)
RECURSIVE DictDeserializeLoop(_, _, _, _, _, _, _)

\* data_list.append(r) for the r one serialize call returned, then the rest
AppendSerialized(pm, mode, r, rest, data_list) ==
    IF r.exc # "" THEN r
    ELSE SerializeAppend(pm, mode, r.tensors, rest, Append(data_list, r.ret))

\* the loop of ListBaseProcessor.serialize with the mode lost below the root
SerializeAppendUnset(pm, mode, tensors, data, data_list) ==
    IF Len(data) = 0 THEN Return(PyList(data_list), tensors)
    ELSE AppendSerialized(pm, NoMode, Serialize(pm, NoMode, tensors, data[1]), Tail(data), data_list)

\* for d in data: data_list.append(self.serializer.serialize(d))
SerializeAppend(pm, mode, tensors, data, data_list) ==
    IF Len(data) = 0 THEN Return(PyList(data_list), tensors)
    ELSE AppendSerialized(pm, mode, Serialize(pm, mode, tensors, data[1]), Tail(data), data_list)

\* results[name] = r for the r one serialize call returned, then the rest
PutSerialized(pm, mode, r, name, names, rest, results) ==
    IF r.exc # "" THEN r
    ELSE SerializeInto(pm, mode, r.tensors, names, rest, DictSet(results, name, r.ret))

\* for each n: results[names[n]] = self.serializer.serialize(data[n])
SerializeInto(pm, mode, tensors, names, data, results) ==
    IF Len(data) = 0 THEN Return(results, tensors)
    ELSE PutSerialized(pm, mode, Serialize(pm, mode, tensors, data[1]),
                       names[1], Tail(names), Tail(data), results)

\* [repr(k) for k in data]
StrKeysRepr(data) == [n \in 1..Len(data.keys) |-> PyStr(PyRepr(data.keys[n]))]

\* [str(k) for k in data]
StrKeys(data) == [n \in 1..Len(data.keys) |-> PyStr(PyStrOf(data.keys[n]))]

\* the elements of a list or tuple from the last to the first
IterReversed(data) == [n \in 1..Len(data.items) |-> data.items[Len(data.items) + 1 - n]]

\* what `for d in data` yields: the elements of a list or tuple, the keys of a dict
Iter(data) == IF data.t = DictT THEN data.keys ELSE data.items

\* ListBaseProcessor.serialize
ListSerialize(proc, pm, mode, tensors, data) ==
    IF data.t \notin {ListT, TupleT, DictT} THEN Raise("TypeError", "not iterable", tensors)
    ELSE SerializeAppend(pm, mode, tensors, Iter(data), <<>>)

\* DictProcessor.serialize
DictSerialize(proc, pm, mode, tensors, data) ==
    SerializeInto(pm, mode, tensors, StrKeys(data), data.items, EmptyDict)

\* schema = {KEYS_FIELD: r}
KeysSchema(r) ==
    IF r.exc # "" THEN r
    ELSE Return(PyDict(<<PyStr(KEYS_FIELD)>>, <<r.ret>>), r.tensors)

\* DictProcessor.serialize_extra
DictSerializeExtra(proc, pm, mode, tensors, data) ==
    KeysSchema(SerializeInto(pm, mode, tensors, StrKeys(data), data.keys, EmptyDict))

\* DataclassProcessor.serialize
DataclassSerialize(proc, pm, mode, tensors, data) ==
    IF ~is_dataclass(data) THEN Raise("TypeError", "must be called with a dataclass", tensors)
    ELSE SerializeInto(pm, mode, tensors, data.keys, data.items, EmptyDict)

\* the processor's serialize
ProcSerialize(proc, pm, mode, tensors, data) ==
    CASE proc.base = "NumberProcessor" -> Return(PyStr(PyStrOf(data)), tensors)
      [] proc.base = "PassthroughProcessor" -> Return(data, tensors)
      [] proc.base = "ListBaseProcessor" -> ListSerialize(proc, pm, mode, tensors, data)
      [] proc.base = "DictProcessor" -> DictSerialize(proc, pm, mode, tensors, data)
      [] proc.base \in {"DataclassProcessor", "ModelOutputProcessor"} ->
            DataclassSerialize(proc, pm, mode, tensors, data)
      [] proc.base = "TensorProcessor" -> TensorSerialize(proc, tensors, data, 0)
      [] proc.base = "MockPlugin" -> Return(PyNone, tensors)

\* what the serialize_extra of a processor that overloads it with a constant returns
OverloadedExtra(proc) ==
    CASE proc.name = "ListExtraProcessor" -> PyList(<<>>)
      [] proc.name = "TypeExtraProcessor" -> PyDict(<<PyStr(TYPE_FIELD)>>, <<PyStr("x")>>)
      [] proc.name = "ValueExtraProcessor" -> PyDict(<<PyStr(VALUE_FIELD)>>, <<PyStr("x")>>)
      [] proc.name = "IntKeyExtraProcessor" -> PyDict(<<PyInt(1)>>, <<PyStr("x")>>)
      [] OTHER -> EmptyDict

\* the processor's serialize_extra; DataProcessor.serialize_extra returns {}
ProcSerializeExtra(proc, pm, mode, tensors, data) ==
    IF proc.base = "DictProcessor" THEN DictSerializeExtra(proc, pm, mode, tensors, data)
    ELSE Return(OverloadedExtra(proc), tensors)

\* results.append(r) for the r one deserialize call returned, then the rest
AppendDeserialized(pm, mode, r, rest, results) ==
    IF r.exc # "" THEN r
    ELSE DeserializeAppend(pm, mode, r.tensors, rest, Append(results, r.ret))

\* for v in serialized: results.append(self.serializer.deserialize(v))
DeserializeAppend(pm, mode, tensors, serialized, results) ==
    IF Len(serialized) = 0 THEN Return(PyList(results), tensors)
    ELSE AppendDeserialized(pm, mode, Deserialize(pm, mode, tensors, serialized[1]),
                            Tail(serialized), results)

\* self.data_type(results)
Construct_data_type(proc, r) ==
    IF r.exc # "" THEN r
    ELSE Return(Obj(proc.data_type, 0, "", FALSE, <<>>, r.ret.items), r.tensors)

\* ListBaseProcessor.deserialize
ListDeserialize(proc, pm, mode, tensors, serialized) ==
    Construct_data_type(proc, DeserializeAppend(pm, mode, tensors, serialized.items, <<>>))

\* results[key] = <the value>, for the key rk and the value rv, then the rest
PutEntry(pm, mode, rk, rv, key_schemas, ks, vs, results) ==
    IF rv.exc # "" THEN rv
    ELSE IF ~Hashable(rk.ret) THEN Raise("TypeError", "unhashable type", rv.tensors)
    ELSE DictDeserializeLoop(pm, mode, rv.tensors, key_schemas, ks, vs,
                             DictSet(results, rk.ret, rv.ret))

\* after key = self.serializer.deserialize(key_schema) returned rk
WithKey(pm, mode, rk, v, key_schemas, ks, vs, results) ==
    IF rk.exc # "" THEN rk
    ELSE PutEntry(pm, mode, rk, Deserialize(pm, mode, rk.tensors, v), key_schemas, ks, vs, results)

\* the loop of DictProcessor.deserialize
DictDeserializeLoop(pm, mode, tensors, key_schemas, ks, vs, results) ==
    IF Len(ks) = 0 THEN Return(results, tensors)
    ELSE IF ~DictHas(key_schemas, ks[1]) THEN Raise("KeyError", "key schema", tensors)
    ELSE WithKey(pm, mode, Deserialize(pm, mode, tensors, DictGet(key_schemas, ks[1])),
                 vs[1], key_schemas, Tail(ks), Tail(vs), results)

\* DictProcessor.deserialize
DictDeserialize(proc, pm, mode, tensors, serialized, kwargs) ==
    IF ~DictHas(kwargs, PyStr(KEYS_FIELD)) THEN Raise("KeyError", "keys", tensors)
    ELSE DictDeserializeLoop(pm, mode, tensors, DictGet(kwargs, PyStr(KEYS_FIELD)),
                             serialized.keys, serialized.items, EmptyDict)

\* dc_kwargs[k] = r for the r one deserialize call returned, then the rest
PutField(pm, mode, r, k, ks, vs, dc_kwargs) ==
    IF r.exc # "" THEN r
    ELSE DeserializeFields(pm, mode, r.tensors, ks, vs, DictSet(dc_kwargs, k, r.ret))

\* for k, v in serialized.items(): dc_kwargs[k] = self.serializer.deserialize(v)
DeserializeFields(pm, mode, tensors, ks, vs, dc_kwargs) ==
    IF Len(ks) = 0 THEN Return(dc_kwargs, tensors)
    ELSE PutField(pm, mode, Deserialize(pm, mode, tensors, vs[1]), ks[1], Tail(ks), Tail(vs), dc_kwargs)

\* cls(**dc_kwargs)
Construct_cls(cls, r) ==
    IF r.exc # "" THEN r
    ELSE Return(Instance(cls, r.ret.keys, r.ret.items), r.tensors)

\* DataclassProcessor.deserialize: an instance of make_dataclass("Dataclass", fields)
DataclassDeserialize(proc, pm, mode, tensors, serialized) ==
    Construct_cls(GenericDataclass,
                  DeserializeFields(pm, mode, tensors, serialized.keys, serialized.items, EmptyDict))

\* ModelOutputProcessor.deserialize (tests/test_plugin.py): self.data_type(**mo_kwargs)
ModelOutputDeserialize(proc, pm, mode, tensors, serialized) ==
    Construct_cls(proc.data_type,
                  DeserializeFields(pm, mode, tensors, serialized.keys, serialized.items, EmptyDict))

\* NumberProcessor.deserialize: self.data_type(serialized)
NumberDeserialize(proc, tensors, serialized) ==
    CASE proc.data_type = IntT ->
            IF serialized.t = StrT /\ IntParses(serialized.s)
            THEN Return(PyInt(ParseInt(serialized.s)), tensors)
            ELSE Raise("ValueError", "invalid literal", tensors)

\* the processor's deserialize(serialized, **kwargs)
ProcDeserialize(proc, pm, mode, tensors, serialized, kwargs) ==
    IF Len(kwargs.keys) > 0 /\ ~AcceptsKwargs(proc)
    THEN Raise("TypeError", "unexpected keyword argument", tensors)
    ELSE CASE proc.base = "NumberProcessor" -> NumberDeserialize(proc, tensors, serialized)
           [] proc.base = "PassthroughProcessor" -> Return(serialized, tensors)
           [] proc.base = "ListBaseProcessor" -> ListDeserialize(proc, pm, mode, tensors, serialized)
           [] proc.base = "DictProcessor" -> DictDeserialize(proc, pm, mode, tensors, serialized, kwargs)
           [] proc.base = "DataclassProcessor" -> DataclassDeserialize(proc, pm, mode, tensors, serialized)
           [] proc.base = "ModelOutputProcessor" -> ModelOutputDeserialize(proc, pm, mode, tensors, serialized)
           [] proc.base = "TensorProcessor" -> TensorDeserialize(proc, tensors, serialized)
           [] proc.base = "MockPlugin" -> Return(PyNone, tensors)

\* the keyword arguments DataProcessor.__call__ builds in LOAD mode
LoadKwargs(schema) == DictWithout(schema, PyStr(VALUE_FIELD))

\* __call__ without the checks on what serialize_extra returned
NoExtraCheck(extra) == ""

\* the checks of DataProcessor.__call__ on what serialize_extra returned
\* ("" when it passes)
ExtraCheck(extra) ==
    IF extra.t # DictT THEN "TypeError"
    ELSE IF DictHas(extra, PyStr(TYPE_FIELD)) THEN "KeyError"
    ELSE IF DictHas(extra, PyStr(VALUE_FIELD)) THEN "KeyError"
    ELSE IF \E n \in 1..Len(extra.keys) : extra.keys[n].t # StrT THEN "TypeError"
    ELSE ""

\* DataProcessor.__call__ in SAVE mode, from the checks on extra e to the return
MergeExtra(schema, e) ==
    IF e.exc # "" THEN e
    ELSE IF ExtraCheck(e.ret) # "" THEN Raise(ExtraCheck(e.ret), "serialize_extra", e.tensors)
    ELSE Return(DictUpdate(schema, e.ret), e.tensors)

\* DataProcessor.__call__ in SAVE mode, after self.serialize returned r
WithValue(proc, pm, mode, schema_type, r, data) ==
    IF r.exc # "" THEN r
    ELSE MergeExtra(PyDict(<<PyStr(TYPE_FIELD), PyStr(VALUE_FIELD)>>, <<PyStr(schema_type), r.ret>>),
                    ProcSerializeExtra(proc, pm, mode, r.tensors, data))

\* __call__ with the SAVE branch as the default: only LOAD is tested for
CallElseSave(proc, pm, mode, tensors, data_or_schema) ==
    IF mode = LOAD
    THEN IF data_or_schema.t # DictT
         THEN Raise("TypeError", "not a mapping", tensors)
         ELSE IF ~DictHas(data_or_schema, PyStr(VALUE_FIELD))
         THEN Raise("KeyError", VALUE_FIELD, tensors)
         ELSE ProcDeserialize(proc, pm, mode, tensors,
                              DictGet(data_or_schema, PyStr(VALUE_FIELD)),
                              LoadKwargs(data_or_schema))
    ELSE WithValue(proc, pm, SAVE, get_schema_type(proc, data_or_schema),
                   ProcSerialize(proc, pm, SAVE, tensors, data_or_schema), data_or_schema)

\* DataProcessor.__call__
Call(proc, pm, mode, tensors, data_or_schema) ==
    IF mode = SAVE
    THEN WithValue(proc, pm, mode, get_schema_type(proc, data_or_schema),
                   ProcSerialize(proc, pm, mode, tensors, data_or_schema), data_or_schema)
    ELSE IF mode = LOAD
    THEN IF data_or_schema.t # DictT
         THEN Raise("TypeError", "not a mapping", tensors)
         ELSE IF ~DictHas(data_or_schema, PyStr(VALUE_FIELD))
         THEN Raise("KeyError", VALUE_FIELD, tensors)
         ELSE ProcDeserialize(proc, pm, mode, tensors,
                              DictGet(data_or_schema, PyStr(VALUE_FIELD)),
                              LoadKwargs(data_or_schema))
    ELSE Raise("ValueError", "mode not recognized", tensors)

\* except KeyError: raise TypeError(f"Processor for type {data_type} not found. ...")
ExceptKeyError(r) ==
    IF r.exc = "KeyError" THEN Raise("TypeError", "processor not found", r.tensors) ELSE r

\* the dispatch without the except clause: the KeyError of the lookup escapes
DispatchNoExcept(pm, mode, tensors, data_type, data_or_schema) ==
    IF data_type \notin DOMAIN pm
    THEN Raise("KeyError", "process_map", tensors)
    ELSE Call(pm[data_type], pm, mode, tensors, data_or_schema)

\* the try / except KeyError around the dispatch in Serializer.serialize and
\* Serializer.deserialize
Dispatch(pm, mode, tensors, data_type, data_or_schema) ==
    IF data_type \notin DOMAIN pm
    THEN Raise("TypeError", "processor not found", tensors)
    ELSE ExceptKeyError(Call(pm[data_type], pm, mode, tensors, data_or_schema))

\* the type of the data, with no fallback for dataclasses
ExactType(pm, data) == data.t

\* the type Serializer.serialize looks up
SerializeType(pm, data) ==
    IF data.t \notin DOMAIN pm /\ is_dataclass(data) THEN Dataclass ELSE data.t

\* Serializer.serialize
Serialize(pm, mode, tensors, data) ==
    Dispatch(pm, mode, tensors, SerializeType(pm, data), data)

\* deserialize with the failure to resolve reported as a missing processor
DeserializeAsLookup(pm, mode, tensors, data_type_str, schema) ==
    IF ~Resolves(data_type_str)
    THEN Raise("TypeError", "processor not found", tensors)
    ELSE Dispatch(pm, mode, tensors, _get_data_type(data_type_str), schema)

\* Serializer.deserialize, once schema[TYPE_FIELD] is read
DeserializeAs(pm, mode, tensors, data_type_str, schema) ==
    IF ~Resolves(data_type_str)
    THEN Raise("ImportError", "cannot import type", tensors)
    ELSE Dispatch(pm, mode, tensors, _get_data_type(data_type_str), schema)

\* Serializer.deserialize
Deserialize(pm, mode, tensors, schema) ==
    IF schema.t # DictT THEN Raise("TypeError", "not a mapping", tensors)
    ELSE IF ~DictHas(schema, PyStr(TYPE_FIELD)) THEN Raise("KeyError", TYPE_FIELD, tensors)
    ELSE DeserializeAs(pm, mode, tensors, DictGet(schema, PyStr(TYPE_FIELD)).s, schema)

(***************************************************************************)
(* json.dumps / json.loads.  The text json.dumps returns is modelled as a  *)
(* str object that carries the document it encodes: tuples become lists,   *)
(* and a str that was not produced by json.dumps does not decode.          *)
(***************************************************************************)
RECURSIVE JsonEncodable(_)
JsonEncodable(x) ==
    \/ x.t \in {NoneType, BoolT, StrT, IntT}
    \/ /\ x.t \in {ListT, TupleT}
       /\ \A n \in 1..Len(x.items) : JsonEncodable(x.items[n])
    \/ /\ x.t = DictT
       /\ \A n \in 1..Len(x.keys) : x.keys[n].t = StrT /\ JsonEncodable(x.items[n])

RECURSIVE JsonDocument(_)
JsonDocument(x) ==
    IF x.t \in {ListT, TupleT}
    THEN PyList([n \in 1..Len(x.items) |-> JsonDocument(x.items[n])])
    ELSE IF x.t = DictT
    THEN PyDict(x.keys, [n \in 1..Len(x.items) |-> JsonDocument(x.items[n])])
    ELSE x

\* json.dumps(x), for an encodable x
JsonDumps(x) == Obj(StrT, 0, "<json>", FALSE, <<>>, <<JsonDocument(x)>>)

\* json.loads(text) succeeds
JsonDecodes(text) == text.t = StrT /\ Len(text.items) = 1

\* json.loads(text)
JsonLoads(text) == text.items[1]

(***************************************************************************)
(* Serializer.__init__                                                     *)
(***************************************************************************)
\* _check_plugin looking the plugin up under the key __init__ stores it with
check_plugin_by_str(process_map, plugin) ==
    IF StrOfType(plugin.data_type) \in DOMAIN process_map THEN "ValueError" ELSE ""

\* Serializer._check_plugin: the exception raised ("" when none)
_check_plugin(process_map, plugin) ==
    IF plugin.data_type \in DOMAIN process_map THEN "ValueError" ELSE ""

\* self.process_map[str(p.data_type)] = p
InsertPlugin(process_map, p) ==
    [k \in DOMAIN process_map \cup {StrOfType(p.data_type)} |->
        IF k = StrOfType(p.data_type) THEN p ELSE process_map[k]]

\* the loop over plugins: the exception raised and the map as the loop left it
RECURSIVE RegisterPlugins(_, _)
RegisterPlugins(process_map, plugins) ==
    IF Len(plugins) = 0 THEN [exc |-> "", process_map |-> process_map]
    ELSE IF _check_plugin(process_map, plugins[1]) # ""
    THEN [exc |-> _check_plugin(process_map, plugins[1]), process_map |-> process_map]
    ELSE RegisterPlugins(InsertPlugin(process_map, plugins[1]), Tail(plugins))

\* Serializer(plugins=plugins), given the module's DEFAULT_PROCESS_MAP
SerializerInit(defaults, plugins) == RegisterPlugins(defaults, plugins)

(***************************************************************************)
(* Serializer.save and Serializer.load as functions of the engine          *)
(***************************************************************************)
\* the dummy tensor of Serializer.save
NullTensor == NdArray(<<PyInt(0)>>)

\* bool(metadata) is False: None or an empty dict
Falsy(metadata) == metadata.t = NoneType \/ (metadata.t = DictT /\ Len(metadata.keys) = 0)

\* the update applied the other way round: the caller's entries win
SaveMetadataUserWins(metadata, schema) ==
    DictUpdate(PyDict(<<PyStr(SCHEMA_FIELD), PyStr(VERSION_FIELD)>>,
                      <<JsonDumps(schema), PyStr(SCHEMA_VERSION)>>),
               IF Falsy(metadata) THEN EmptyDict ELSE metadata)

\* the dict metadata.update(...) leaves behind
SaveMetadata(metadata, schema) ==
    DictUpdate(IF Falsy(metadata) THEN EmptyDict ELSE metadata,
               PyDict(<<PyStr(SCHEMA_FIELD), PyStr(VERSION_FIELD)>>,
                      <<JsonDumps(schema), PyStr(SCHEMA_VERSION)>>))

\* Serializer.save adding the dummy tensor whatever the store holds
SaveTensorsAlways(tensors) == DictSet(tensors, PyStr("null"), NullTensor)

\* self.tensors after the `if not self.tensors` of Serializer.save
SaveTensors(tensors) ==
    IF Len(tensors.keys) = 0 THEN DictSet(tensors, PyStr("null"), NullTensor) ELSE tensors

\* save that swallows the exception of self.serialize and writes what there is
SaveAnyway(r, metadata) ==
    [exc |-> "", why |-> "", ret |-> r.ret, tensors |-> SaveTensors(r.tensors),
     stored |-> r.tensors, wrote |-> TRUE,
     written |-> [tensors |-> SaveTensors(r.tensors), metadata |-> metadata],
     metadata |-> metadata]

\* Serializer.save after self.serialize(data) returned r: what the engine
\* holds, the store as self.serialize left it (stored), whether save_file was
\* called (wrote) and with what
SaveOutcome(r, metadata) ==
    IF r.exc # ""
    THEN [exc |-> r.exc, why |-> r.why, ret |-> PyNone, tensors |-> r.tensors,
          stored |-> r.tensors, wrote |-> FALSE, written |-> [tensors |-> EmptyDict, metadata |-> PyNone],
          metadata |-> metadata]
    ELSE IF ~JsonEncodable(r.ret)
    THEN [exc |-> "TypeError", why |-> "not JSON serializable", ret |-> PyNone,
          tensors |-> r.tensors,
          stored |-> r.tensors, wrote |-> FALSE, written |-> [tensors |-> EmptyDict, metadata |-> PyNone],
          metadata |-> metadata]
    ELSE [exc |-> "", why |-> "", ret |-> r.ret, tensors |-> SaveTensors(r.tensors),
          stored |-> r.tensors, wrote |-> TRUE,
          written |-> [tensors |-> SaveTensors(r.tensors),
                       metadata |-> SaveMetadata(metadata, r.ret)],
          metadata |-> IF Falsy(metadata) THEN metadata ELSE SaveMetadata(metadata, r.ret)]

\* the store kept as the previous pass left it
NotCleared(tensors) == tensors

\* self.tensors.clear()
Cleared(tensors) == EmptyDict

\* Serializer.save(data, save_path, metadata) on a Serializer whose store is tensors
Save(pm, tensors, data, metadata) ==
    SaveOutcome(Serialize(pm, SAVE, Cleared(tensors), data), metadata)

\* self.tensors after the loop over f.keys()
LoadTensors(tensors, container) == DictUpdate(Cleared(tensors), container.tensors)

\* Serializer.load up to json.loads, with the store as the loop over f.keys()
\* left it: the decoded schema, or the exception
LoadSchema(tensors, container) ==
    IF container.metadata.t = NoneType
    THEN Raise("TypeError", "NoneType object is not subscriptable", tensors)
    ELSE IF ~DictHas(container.metadata, PyStr(SCHEMA_FIELD))
    THEN Raise("ValueError", "not a valid safetensors file", tensors)
    ELSE IF ~JsonDecodes(DictGet(container.metadata, PyStr(SCHEMA_FIELD)))
    THEN Raise("ValueError", "JSONDecodeError", tensors)
    ELSE Return(JsonLoads(DictGet(container.metadata, PyStr(SCHEMA_FIELD))), tensors)

\* Serializer.load from results = self.deserialize(schema) on
LoadDeserialize(pm, pre) ==
    IF pre.exc # "" THEN [called |-> FALSE] @@ pre
    ELSE [called |-> TRUE] @@ Deserialize(pm, LOAD, pre.tensors, pre.ret)

\* Serializer.load(load_path) of a container: f.metadata() is None when the
\* file has no metadata; called tells whether self.deserialize was invoked
Load(pm, tensors, container) ==
    LoadDeserialize(pm, LoadSchema(LoadTensors(tensors, container), container))

(***************************************************************************)
(* The inputs: the values a caller hands to the engine, the plugin lists   *)
(* it constructs the engine with, the metadata it passes to save and the   *)
(* containers it finds on disk.                                            *)
(***************************************************************************)
\* two arrays that differ
A0 == NdArray(<<PyInt(7)>>)
A1 == NdArray(<<PyInt(8), PyInt(9)>>)

Ints == {PyInt(n) : n \in 0..MaxInt}

Scalars == {PyNone, PyBool(TRUE), PyBool(FALSE), PyStr("a"), PyStr("1")} \cup Ints

Leaves == Scalars \cup {A0, A1}

\* the sequences over S of length 0 .. n
SeqsUpTo(S, n) == UNION {[1..k -> S] : k \in 0..n}

\* elements of the flat lists and tuples
FlatElems == {PyStr("a"), PyInt(1), A0}

\* keys of the flat dicts, in the order they are inserted; 1 and "1" have the
\* same string form
FlatKeys == <<PyStr("a"), PyInt(1), PyStr("1"), PyTuple(<<PyInt(1), PyInt(2)>>)>>
FlatDictVals == {PyBool(TRUE), A1}

\* the increasing sequences of n positions of FlatKeys
Picks(n) == {p \in [1..n -> 1..Len(FlatKeys)] : \A m \in 1..n : m > 1 => p[m - 1] < p[m]}

FlatDicts ==
    UNION {{PyDict([m \in 1..n |-> FlatKeys[p[m]]], vs) : p \in Picks(n), vs \in [1..n -> FlatDictVals]} :
            n \in 0..MaxLen}

Flat ==
    Leaves \cup {PyList(xs) : xs \in SeqsUpTo(FlatElems, MaxLen)}
           \cup {PyTuple(xs) : xs \in SeqsUpTo(FlatElems, MaxLen)}
           \cup FlatDicts

\* the values that get nested deeper
Core ==
    {PyInt(1), PyStr("a"), A0, PyList(<<>>), PyList(<<A0, PyInt(1)>>), PyTuple(<<A0>>),
     PyDict(<<PyStr("a")>>, <<A1>>), PyDict(<<PyTuple(<<PyInt(1), PyInt(2)>>)>>, <<PyInt(3)>>)}

\* one more level of nesting around x
Wraps(x) ==
    {PyList(<<x>>), PyTuple(<<A1, x>>), PyDict(<<PyTuple(<<PyInt(1), PyInt(2)>>)>>, <<x>>)}

RECURSIVE Wrapped(_)
\* Core wrapped n times
Wrapped(n) == IF n = 0 THEN Core ELSE UNION {Wraps(x) : x \in Wrapped(n - 1)}

\* the input values: nested at most d deep
Nested(d) == Flat \cup UNION {Wrapped(n) : n \in 0..(d - 1)}

\* instances of classes that only a plugin or the dataclass fallback serves
anakin == Instance(TestDC, <<PyStr("name"), PyStr("chosen_one")>>, <<PyStr("a"), PyBool(TRUE)>>)
model_output == Instance(BertOutput, <<PyStr("last_hidden_state")>>, <<PyList(<<>>)>>)
encoder_output == Instance(BertEncoderOutput, <<PyStr("last_hidden_state")>>, <<PyTuple(<<>>)>>)

\* values of classes without a processor: bytes, and an instance of a subclass
\* of dict; neither is a dataclass
PyBytes(x) == Obj(BytesT, 0, x, FALSE, <<>>, <<>>)
ordered_dict == Obj(OrderedDict, 0, "", FALSE, <<PyStr("a")>>, <<PyInt(1)>>)
Unsupported == {PyBytes("x"), ordered_dict, PyList(<<PyBytes("x")>>)}

\* the processor classes called directly: DictProcessor, whose serialize_extra
\* keeps the contract, and the four that break it
ContractProcessors ==
    {DictProcessor, ListExtraProcessor, TypeExtraProcessor, ValueExtraProcessor,
     IntKeyExtraProcessor}

PluginData ==
    {anakin, model_output, encoder_output, PyInt(1), PyList(<<>>),
     PyDict(<<PyStr("model_output")>>, <<model_output>>)}

PluginLists ==
    {<<BertOutputProcessor, BertEncoderOutputProcessor>>,
     <<MockPlugin>>,
     <<MyIntProcessor>>,
     <<MockPlugin, MyDictProcessor>>,
     <<BertOutputProcessor, SecondBertOutputProcessor>>,
     <<BertOutputProcessor, BertOutputProcessor>>}

\* the metadata argument of save: None, or a dict of strings
Metadatas ==
    {PyNone, EmptyDict,
     PyDict(<<PyStr("other_field")>>, <<PyStr("other_value")>>),
     PyDict(<<PyStr(SCHEMA_FIELD)>>, <<PyStr("mine")>>)}

\* tests/test_serializer.py: serialize patched to store one tensor
mock_schema == PyDict(<<PyStr(TYPE_FIELD), PyStr(VALUE_FIELD)>>, <<PyStr("mock_type"), PyStr("mock_value")>>)
mock_serialize_with_tensor(tensors) ==
    Return(mock_schema, DictSet(tensors, PyStr("mock_tensor_id"), A0))

\* a schema node
Node(type, value) == PyDict(<<PyStr(TYPE_FIELD), PyStr(VALUE_FIELD)>>, <<PyStr(type), value>>)

\* schema nodes written by hand, as the tests do
HandNodes ==
    {Node("numpy.ndarray", PyStr("0")),
     Node("numpy.ndarray", PyStr("1")),
     Node("list", PyList(<<Node("numpy.ndarray", PyStr("1")), Node("numpy.ndarray", PyStr("0"))>>)),
     Node("tuple", PyList(<<>>)),
     Node("int", PyStr("1")),
     Node("NoneType", PyNone),
     Node(DATACLASS_NAME, PyDict(<<PyStr("name")>>, <<Node("list", PyList(<<>>))>>)),
     Node("BaseModelOutputWithPoolingAndCrossAttentions", EmptyDict),
     Node(DottedPath(BertOutput), EmptyDict),
     Node(DottedPath(Mock), PyNone),
     Node("bytes", PyStr("x")),
     Node("no_such_module.Name", PyNone),
     Node("numpy.no_such_name", PyNone)}

Container(tensors, metadata) == [tensors |-> tensors, metadata |-> metadata]

\* a safestructures file holding the schema and the tensors
SafeFile(tensors, schema) ==
    Container(tensors, PyDict(<<PyStr(SCHEMA_FIELD), PyStr(VERSION_FIELD)>>,
                              <<JsonDumps(schema), PyStr(SCHEMA_VERSION)>>))

\* the files on disk that this engine did not write
Containers ==
    {Container(PyDict(<<PyStr("weight")>>, <<A0>>), PyNone),
     Container(PyDict(<<PyStr("weight")>>, <<A0>>), PyDict(<<PyStr("format")>>, <<PyStr("pt")>>)),
     Container(PyDict(<<PyStr("weight")>>, <<A0>>), PyDict(<<PyStr(VERSION_FIELD)>>, <<PyStr(SCHEMA_VERSION)>>)),
     Container(PyDict(<<PyStr("null")>>, <<NullTensor>>), PyDict(<<PyStr(SCHEMA_FIELD)>>, <<PyStr("{")>>)),
     SafeFile(PyDict(<<PyStr("0"), PyStr("1")>>, <<A0, A1>>),
              Node("list", PyList(<<Node("numpy.ndarray", PyStr("1")), Node("numpy.ndarray", PyStr("0"))>>))),
     SafeFile(PyDict(<<PyStr("0")>>, <<A1>>), Node("numpy.ndarray", PyStr("0")))}

\* what the caller holds when none of it matters to the scenario
test_other_metadata == PyDict(<<PyStr("other_field")>>, <<PyStr("other_value")>>)
test_schema == Node("list", PyList(<<Node("numpy.ndarray", PyStr("1")), Node("numpy.ndarray", PyStr("0"))>>))
test_container == SafeFile(PyDict(<<PyStr("0"), PyStr("1")>>, <<A0, A1>>), test_schema)

Scenario(d, p, n, c, m) == [data |-> d, plugins |-> p, schema |-> n, container |-> c, metadata |-> m]

\* what a caller starts from: the value, the plugin list, a schema written by
\* hand, a file on disk and the metadata mapping
Scenarios ==
    {Scenario(d, <<>>, test_schema, test_container, test_other_metadata) : d \in Nested(MaxDepth)}
    \cup {Scenario(d, p, n, test_container, test_other_metadata) :
            d \in PluginData, p \in PluginLists,
            n \in {Node("BaseModelOutputWithPoolingAndCrossAttentions", EmptyDict),
                   Node(DottedPath(BertOutput), EmptyDict), Node(DottedPath(Mock), PyNone)}}
    \cup {Scenario(d, <<>>, test_schema, test_container, test_other_metadata) : d \in Unsupported}
    \cup {Scenario(PyList(<<>>), <<>>, n, test_container, test_other_metadata) : n \in HandNodes}
    \cup {Scenario(PyList(<<>>), <<>>, test_schema, c, test_other_metadata) : c \in Containers}
    \cup {Scenario(d, <<>>, test_schema, test_container, m) :
            d \in {PyInt(1), PyList(<<A0>>)}, m \in Metadatas}

(***************************************************************************)
(* The state machine: one caller, one Serializer.                          *)
(***************************************************************************)
VARIABLES
    DEFAULT_PROCESS_MAP,  \* defaults.DEFAULT_PROCESS_MAP (module global)
    data,                 \* the caller's value
    plugins,              \* the caller's plugin list
    schema,               \* a schema the caller wrote by hand
    container,            \* a file on disk that this engine did not write
    metadata,             \* the caller's metadata mapping (None when it has none)
    other,                \* another Serializer, constructed earlier
    alive,                \* a Serializer has been constructed
    process_map,          \* Serializer.process_map
    tensors,              \* Serializer.tensors
    mode,                 \* Serializer.mode
    last,                 \* the last call and its outcome
    threads               \* the passes that threads run on the Serializer

inputs == <<data, plugins, schema, container>>

vars == <<DEFAULT_PROCESS_MAP, other, inputs, metadata, alive, process_map, tensors, mode, last, threads>>

\* the record of a call: mode is Serializer.mode when it was made, made the
\* mode under which its argument was produced (for a schema handed back)
Outcome(op, arg, origin, r) ==
    [op |-> op, exc |-> r.exc, why |-> r.why, arg |-> arg, origin |-> origin, ret |-> r.ret,
     mode |-> mode, made |-> NoMode, before |-> tensors, pm |-> process_map, called |-> FALSE,
     wrote |-> FALSE, stored |-> EmptyDict, written |-> Container(EmptyDict, PyNone),
     metadata |-> PyNone, proc |-> NoProcessor]

\* the threads that call the Serializer
Threads == {1, 2}

\* a thread that has not called the Serializer: its call and argument, where
\* it stands, the schema load decoded, the mode its dispatch ran under and the
\* thread that had assigned it, whether its pass ran without a step of
\* another thread in between, and how the call ended
Idle ==
    [op |-> "none", arg |-> PyNone, pc |-> "idle", schema |-> PyNone,
     ran |-> NoMode, set_by |-> 0, alone |-> TRUE,
     exc |-> "", ret |-> PyNone, written |-> [tensors |-> EmptyDict, metadata |-> PyNone]]

NoThreads == [of |-> [t \in Threads |-> Idle], writer |-> 0]

\* a Serializer constructed without plugins and not used since
FreshSerializer ==
    [process_map |-> DefaultProcessMap, tensors |-> EmptyDict, mode |-> NoMode]

NoCall == [op |-> "none", exc |-> "", why |-> "", arg |-> PyNone, origin |-> PyNone, ret |-> PyNone,
           mode |-> NoMode, made |-> NoMode, before |-> EmptyDict, pm |-> EmptyMap, called |-> FALSE,
           wrote |-> FALSE, stored |-> EmptyDict, written |-> Container(EmptyDict, PyNone),
           metadata |-> PyNone, proc |-> NoProcessor]

Init ==
    /\ DEFAULT_PROCESS_MAP = DefaultProcessMap
    /\ \E sc \in Scenarios :
          /\ data = sc.data
          /\ plugins = sc.plugins
          /\ schema = sc.schema
          /\ container = sc.container
          /\ metadata = sc.metadata
    /\ other = FreshSerializer
    /\ alive = FALSE
    /\ process_map = EmptyMap
    /\ tensors = EmptyDict
    /\ mode = NoMode
    /\ last = NoCall
    /\ threads = NoThreads

\* self.process_map = DEFAULT_PROCESS_MAP, without the copy: the plugin
\* entries of __init__ land in the dict every engine shares
SharedAliased(shared, r) == r.process_map

\* a registry other than self.process_map after __init__ has run:
\* self.process_map is a deepcopy, the plugin entries go into the copy only
SharedAfterInit(shared, r) == shared

\* the Serializer that __init__ leaves behind; r.process_map is
\* self.process_map when __init__ returned or raised
AfterInit(r) ==
    /\ alive' = (r.exc = "")
    /\ process_map' = IF r.exc = "" THEN r.process_map ELSE process_map
    /\ last' = [NoCall EXCEPT !.op = "init", !.exc = r.exc, !.pm = r.process_map]

\* Serializer(plugins=plugins): on an exception no Serializer exists
Construct ==
    /\ ~alive
    /\ AfterInit(SerializerInit(DEFAULT_PROCESS_MAP, plugins))
    /\ tensors' = EmptyDict
    /\ mode' = NoMode
    /\ DEFAULT_PROCESS_MAP' =
           SharedAfterInit(DEFAULT_PROCESS_MAP,
                           SerializerInit(DEFAULT_PROCESS_MAP, plugins))
    /\ other' = [other EXCEPT !.process_map =
           SharedAfterInit(other.process_map,
                           SerializerInit(DEFAULT_PROCESS_MAP, plugins))]
    /\ UNCHANGED <<threads, inputs, metadata>>

\* serializer.mode = m, as the tests' fixtures do (mode is a plain attribute)
SetMode(m) ==
    /\ alive
    /\ mode # m
    /\ mode' = m
    /\ UNCHANGED <<DEFAULT_PROCESS_MAP, other, threads, inputs, metadata, alive, process_map, tensors, last>>

\* what a direct call of serialize or deserialize leaves behind
AfterCall(op, arg, origin, made, r) ==
    /\ tensors' = r.tensors
    /\ last' = [Outcome(op, arg, origin, r) EXCEPT !.made = made]
    /\ UNCHANGED <<DEFAULT_PROCESS_MAP, other, threads, inputs, metadata, alive, process_map, mode>>

\* serializer.serialize(data)
CallSerialize ==
    /\ alive
    /\ AfterCall("serialize", data, PyNone, NoMode, Serialize(process_map, mode, tensors, data))

\* serializer.deserialize(schema) of the schema serialize just returned
CallDeserializeBack ==
    /\ alive
    /\ last.op = "serialize" /\ last.exc = ""
    /\ AfterCall("deserialize_back", last.ret, last.arg, last.mode,
                 Deserialize(process_map, mode, tensors, last.ret))

\* serializer.deserialize(schema) of the schema written by hand
CallDeserialize ==
    /\ alive
    /\ AfterCall("deserialize", schema, PyNone, NoMode, Deserialize(process_map, mode, tensors, schema))

\* what a call of a processor instance leaves behind
AfterDispatch(proc, r) ==
    /\ tensors' = r.tensors
    /\ last' = [Outcome("call", data, PyNone, r) EXCEPT !.proc = proc]
    /\ UNCHANGED <<DEFAULT_PROCESS_MAP, other, threads, inputs, metadata, alive, process_map, mode>>

\* proc(serializer)(data): DataProcessor.__call__ of an instance of the
\* processor class proc, for data of the type the class declares
CallProcessor(proc) ==
    /\ alive
    /\ proc.data_type = data.t
    /\ AfterDispatch(proc, Call(proc, process_map, mode, tensors, data))

\* what an action that ran Serializer.save leaves behind
AfterSave(op, o) ==
    /\ tensors' = o.tensors
    /\ mode' = SAVE
    /\ metadata' = o.metadata
    /\ last' = [Outcome(op, data, PyNone, o) EXCEPT
                    !.wrote = o.wrote, !.stored = o.stored, !.written = o.written,
                    !.metadata = metadata]
    /\ UNCHANGED <<DEFAULT_PROCESS_MAP, other, threads, inputs, alive, process_map>>

\* serializer.save(data, save_path, metadata)
CallSave ==
    /\ alive
    /\ AfterSave("save", Save(process_map, tensors, data, metadata))

\* serializer.save with Serializer.serialize patched as in test_save_with_tensor
CallSavePatched ==
    /\ alive
    /\ AfterSave("save_patched", SaveOutcome(mock_serialize_with_tensor(Cleared(tensors)), metadata))

\* what an action that ran Serializer.load leaves behind
AfterLoad(op, c, r) ==
    /\ tensors' = r.tensors
    /\ mode' = LOAD
    /\ last' = [Outcome(op, PyNone, PyNone, r) EXCEPT !.called = r.called, !.written = c]
    /\ UNCHANGED <<DEFAULT_PROCESS_MAP, other, threads, inputs, metadata, alive, process_map>>

\* serializer.load(load_path) of the file on disk
CallLoad ==
    /\ alive
    /\ AfterLoad("load", container, Load(process_map, tensors, container))

\* serializer.load of the file serializer.save just wrote
CallLoadSaved ==
    /\ alive
    /\ last.op \in {"save", "save_patched"} /\ last.wrote
    /\ AfterLoad("load_saved", last.written, Load(process_map, tensors, last.written))

Next ==
    \/ Construct
    \/ \E m \in {SAVE, LOAD, OtherMode} : SetMode(m)
    \/ CallSerialize
    \/ CallDeserializeBack
    \/ CallDeserialize
    \/ \E proc \in ContractProcessors : CallProcessor(proc)
    \/ CallSave
    \/ CallSavePatched
    \/ CallLoad
    \/ CallLoadSaved

Spec == Init /\ [][Next]_vars

(***************************************************************************)
(* Two threads, one Serializer.  Each thread runs one pass, save or load,  *)
(* and the passes interleave between the statements of Serializer.save and *)
(* Serializer.load; the call tree under self.serialize(data) and under     *)
(* self.deserialize(schema) is taken in one step.  Nothing in the code     *)
(* orders the threads, so every interleaving of the steps is a behaviour.  *)
(***************************************************************************)
\* the pass of thread t has started and has not ended
MidPass(rec) == rec.pc \in {"mode", "open", "call", "write"}

\* the mode a pass assigns
PassMode(op) == IF op = "save" THEN SAVE ELSE LOAD

\* a thread whose step is not this one: a thread in the middle of its pass
\* has had a step of another thread between two of its own
Interleaved(rec) == IF MidPass(rec) THEN [rec EXCEPT !.alone = FALSE] ELSE rec

\* thread t has taken a step that leaves it as rec; w assigned the mode last
Advance(t, rec, w) ==
    threads' = [of |-> [u \in Threads |->
                          IF u = t THEN rec ELSE Interleaved(threads.of[u])],
                writer |-> w]

\* the values the threads save
ThreadData == {PyInt(1), PyList(<<PyStr("a"), PyInt(1)>>), PyList(<<A0>>)}

\* the files the threads load
ThreadContainers ==
    {test_container,
     SafeFile(PyDict(<<PyStr("0")>>, <<A1>>), Node("numpy.ndarray", PyStr("0"))),
     Container(PyDict(<<PyStr("weight")>>, <<A0>>), PyNone)}

\* what thread t was started with: serializer.save(arg, path) or
\* serializer.load(arg)
Started(op, arg) == [Idle EXCEPT !.op = op, !.arg = arg, !.pc = "clear"]

Passes ==
    {Started("save", d) : d \in ThreadData}
    \cup {Started("load", c) : c \in ThreadContainers}

\* a Serializer constructed without plugins, and each thread about to enter
\* its call
InitThreads ==
    /\ DEFAULT_PROCESS_MAP = DefaultProcessMap
    /\ other = FreshSerializer
    /\ data = PyList(<<>>)
    /\ plugins = <<>>
    /\ schema = test_schema
    /\ container = test_container
    /\ metadata = PyNone
    /\ alive = TRUE
    /\ process_map = SerializerInit(DefaultProcessMap, <<>>).process_map
    /\ tensors = EmptyDict
    /\ mode = NoMode
    /\ last = NoCall
    /\ \E of \in [Threads -> Passes] : threads = [of |-> of, writer |-> 0]

\* self.tensors.clear(), the first statement of save and of load
Clear(t) ==
    /\ threads.of[t].pc = "clear"
    /\ tensors' = Cleared(tensors)
    /\ Advance(t, [threads.of[t] EXCEPT !.pc = "mode"], threads.writer)
    /\ UNCHANGED <<DEFAULT_PROCESS_MAP, other, inputs, metadata, alive, process_map, mode, last>>

\* self.mode = Mode.SAVE in save, self.mode = Mode.LOAD in load
AssignMode(t) ==
    /\ threads.of[t].pc = "mode"
    /\ mode' = PassMode(threads.of[t].op)
    /\ Advance(t, [threads.of[t] EXCEPT
                     !.pc = IF threads.of[t].op = "save" THEN "call" ELSE "open"], t)
    /\ UNCHANGED <<DEFAULT_PROCESS_MAP, other, inputs, metadata, alive, process_map, tensors, last>>

\* thread t after the with block of load and json.loads, pre their outcome
AfterOpen(t, pre) ==
    /\ tensors' = pre.tensors
    /\ Advance(t, IF pre.exc # ""
                  THEN [threads.of[t] EXCEPT !.pc = "done", !.exc = pre.exc]
                  ELSE [threads.of[t] EXCEPT !.pc = "call", !.schema = pre.ret],
               threads.writer)

\* load: the loop self.tensors[k] = f.get_tensor(k) into the store as it is
\* now, then the schema read from the metadata of the file
Open(t) ==
    /\ threads.of[t].pc = "open"
    /\ AfterOpen(t, LoadSchema(DictUpdate(tensors, threads.of[t].arg.tensors),
                               threads.of[t].arg))
    /\ UNCHANGED <<DEFAULT_PROCESS_MAP, other, inputs, metadata, alive, process_map, mode, last>>

\* a mode each pass keeps for itself
ModeOfOwnPass(t) == PassMode(threads.of[t].op)

\* mode = self.serializer.mode, read by DataProcessor.__call__ of thread t
ModeSeen(t) == mode

\* thread t after self.serialize(data) or self.deserialize(schema) ended as
\* r under the mode m: load returns or raises, save goes on when r returned
AfterThreadCall(t, m, r) ==
    /\ tensors' = r.tensors
    /\ Advance(t, [threads.of[t] EXCEPT
                     !.pc = IF threads.of[t].op = "save" /\ r.exc = ""
                            THEN "write" ELSE "done",
                     !.ran = m, !.set_by = threads.writer,
                     !.exc = r.exc, !.ret = r.ret],
               threads.writer)

\* schema = self.serialize(data) in save, results = self.deserialize(schema)
\* in load, on the store and under the mode the Serializer holds now
ThreadCall(t) ==
    /\ threads.of[t].pc = "call"
    /\ AfterThreadCall(t, ModeSeen(t),
          IF threads.of[t].op = "save"
          THEN Serialize(process_map, ModeSeen(t), tensors, threads.of[t].arg)
          ELSE Deserialize(process_map, ModeSeen(t), tensors, threads.of[t].schema))
    /\ UNCHANGED <<DEFAULT_PROCESS_MAP, other, inputs, metadata, alive, process_map, mode, last>>

\* thread t after the rest of save ended as o
AfterWrite(t, o) ==
    /\ tensors' = o.tensors
    /\ Advance(t, [threads.of[t] EXCEPT
                     !.pc = "done", !.exc = o.exc, !.ret = o.ret, !.written = o.written],
               threads.writer)

\* save from `if not metadata` on: json.dumps(schema), the dummy tensor and
\* save_file(self.tensors, ...) with the store as it is now
Write(t) ==
    /\ threads.of[t].pc = "write"
    /\ AfterWrite(t, SaveOutcome(Return(threads.of[t].ret, tensors), PyNone))
    /\ UNCHANGED <<DEFAULT_PROCESS_MAP, other, inputs, metadata, alive, process_map, mode, last>>

NextThreads ==
    \E t \in Threads :
        \/ Clear(t)
        \/ AssignMode(t)
        \/ Open(t)
        \/ ThreadCall(t)
        \/ Write(t)

SpecThreads == InitThreads /\ [][NextThreads]_vars

(***************************************************************************)
(* Properties of the engine.  data, plugins, schema and container are what *)
(* the caller started from; last records the call just made.               *)
(***************************************************************************)
RECURSIVE Plain(_)
\* x is built from None, booleans, strings, integers, lists, tuples and dicts
Plain(x) ==
    \/ x.t \in {NoneType, BoolT, StrT, IntT}
    \/ /\ x.t \in {ListT, TupleT}
       /\ \A n \in 1..Len(x.items) : Plain(x.items[n])
    \/ /\ x.t = DictT
       /\ \A n \in 1..Len(x.keys) : Plain(x.keys[n]) /\ Plain(x.items[n])

RECURSIVE PlainOrArray(_)
\* as Plain, with arrays allowed where a value may stand
PlainOrArray(x) ==
    \/ x.t \in {NoneType, BoolT, StrT, IntT, NdarrayT}
    \/ /\ x.t \in {ListT, TupleT}
       /\ \A n \in 1..Len(x.items) : PlainOrArray(x.items[n])
    \/ /\ x.t = DictT
       /\ \A n \in 1..Len(x.keys) : Plain(x.keys[n]) /\ PlainOrArray(x.items[n])

RECURSIVE ArraysOf(_)
RECURSIVE ArraysIn(_)
\* the arrays of the values xs, in the order the engine meets them
ArraysIn(xs) == IF Len(xs) = 0 THEN <<>> ELSE ArraysOf(xs[1]) \o ArraysIn(Tail(xs))

\* the arrays of x, in the order the engine meets them
ArraysOf(x) == IF x.t = NdarrayT THEN <<x>> ELSE ArraysIn(x.items)

\* node is the schema node of an array
ArrayNode(node) ==
    /\ node.t = DictT
    /\ DictHas(node, PyStr(TYPE_FIELD))
    /\ DictGet(node, PyStr(TYPE_FIELD)) = PyStr(get_import_path(NdarrayT))
    /\ DictHas(node, PyStr(VALUE_FIELD))

RECURSIVE ArrayIds(_)
RECURSIVE ArrayIdsIn(_)
\* the ids of the array nodes among the schema nodes, in order
ArrayIdsIn(nodes) == IF Len(nodes) = 0 THEN <<>> ELSE ArrayIds(nodes[1]) \o ArrayIdsIn(Tail(nodes))

\* the ids of the array nodes of a schema, in order
ArrayIds(node) ==
    IF ArrayNode(node) THEN <<DictGet(node, PyStr(VALUE_FIELD))>>
    ELSE IF node.t = DictT /\ DictHas(node, PyStr(VALUE_FIELD))
    THEN ArrayIdsIn(DictGet(node, PyStr(VALUE_FIELD)).items)
    ELSE <<>>

\* the ids "0" .. "n-1"
FirstIds(n) == [k \in 1..n |-> PyStr(IntToStr(k - 1))]

\* the keys of d have pairwise distinct string forms
DistinctStringForms(d) ==
    \A i, j \in 1..Len(d.keys) : i # j => PyStrOf(d.keys[i]) # PyStrOf(d.keys[j])

\* the call just made is deserialize, in LOAD mode, of the schema that
\* serialize returned for data in SAVE mode
RoundTripped == last.op = "deserialize_back" /\ last.made = SAVE /\ last.mode = LOAD

\* the call just made ended as r
EndedAs(r) == last.exc = r.exc /\ last.why = r.why /\ last.ret = r.ret /\ tensors = r.tensors

\* the plugins of the caller's list that declare the type T
PluginsFor(T) == {plugins[n] : n \in {m \in 1..Len(plugins) : plugins[m].data_type = T}}

\* C1: for every value built from None, booleans, strings, integers, lists,
\* tuples and dicts, serialize under SAVE followed by deserialize of the
\* resulting schema under LOAD on the same Serializer returns, without
\* raising, a value equal to the original with the same container types.
RoundTrip ==
    (RoundTripped /\ Plain(data)) => (last.exc = "" /\ last.ret = data)

\* the int 1 was serialized to {"type": "int", "value": "1"} and deserialize
\* of that schema raised TypeError: "type" was passed on as a keyword
ScalarLoadRaises ==
    /\ RoundTripped
    /\ data = PyInt(1)
    /\ last.arg = Node("int", PyStr("1"))
    /\ last.exc = "TypeError"
    /\ last.why = "unexpected keyword argument"

\* C2: in a SAVE-mode pass that starts with an empty store, the k-th array
\* met is stored under str(k-1) and its node's value is that id; after the
\* pass the store holds exactly the ids "0" .. "n-1" for n arrays.
ArrayIdAssignment ==
    (last.op = "serialize" /\ last.mode = SAVE /\ last.before = EmptyDict /\ PlainOrArray(data)) =>
        /\ last.exc = ""
        /\ tensors = PyDict(FirstIds(Len(ArraysOf(data))), ArraysOf(data))
        /\ ArrayIds(last.ret) = FirstIds(Len(ArraysOf(data)))

\* serialize of a list holding one array raised RecursionError and stored nothing
ArraySerializeRecurses ==
    /\ last.op = "serialize"
    /\ last.mode = SAVE
    /\ last.before = EmptyDict
    /\ data = PyList(<<A0>>)
    /\ last.exc = "RecursionError"
    /\ tensors = EmptyDict

\* C3: after a SAVE-mode serialize of an array the store entry under the
\* emitted id is the array itself, and a LOAD-mode deserialize of an array
\* node with id i returns exactly the store entry under i.
ArrayStoreRoundTrip ==
    /\ (last.op = "serialize" /\ last.mode = SAVE /\ data.t = NdarrayT) =>
          /\ last.exc = ""
          /\ ArrayNode(last.ret)
          /\ DictGet(last.ret, PyStr(VALUE_FIELD)).t = StrT
          /\ DictHas(tensors, DictGet(last.ret, PyStr(VALUE_FIELD)))
          /\ DictGet(tensors, DictGet(last.ret, PyStr(VALUE_FIELD))) = data
    /\ (/\ last.op = "deserialize"
        /\ last.mode = LOAD
        /\ ArrayNode(schema)
        /\ DictHas(last.before, DictGet(schema, PyStr(VALUE_FIELD)))) =>
          /\ last.exc = ""
          /\ last.ret = DictGet(last.before, DictGet(schema, PyStr(VALUE_FIELD)))

\* save of an array raised RecursionError: nothing was stored, nothing written
ArrayNeverStored ==
    /\ last.op = "save"
    /\ data = A1
    /\ last.exc = "RecursionError"
    /\ last.stored = EmptyDict
    /\ ~last.wrote

\* C4: for every dict whose keys have pairwise distinct string forms,
\* serializing in SAVE mode and deserializing the node in LOAD mode yields a
\* dict with the original key objects, each mapped to its original value.
DictKeysRoundTrip ==
    (RoundTripped /\ data.t = DictT /\ Plain(data) /\ DistinctStringForms(data)) =>
        /\ last.exc = ""
        /\ last.ret.t = DictT
        /\ last.ret.keys = data.keys
        /\ last.ret.items = data.items

\* {(1, 2): 3} was serialized with its key table and deserialize of the node
\* raised TypeError
TupleKeyLoadRaises ==
    /\ RoundTripped
    /\ data = PyDict(<<PyTuple(<<PyInt(1), PyInt(2)>>)>>, <<PyInt(3)>>)
    /\ DictHas(last.arg, PyStr(KEYS_FIELD))
    /\ last.exc = "TypeError"
    /\ last.why = "unexpected keyword argument"

\* C5: constructing a Serializer with a plugin whose declared data type has
\* an entry in the default registry raises ValueError before the plugin is
\* inserted: no engine is constructed and no default entry is replaced.
DefaultConflictRaises ==
    (/\ last.op = "init"
     /\ \E n \in 1..Len(plugins) : plugins[n].data_type \in DOMAIN DEFAULT_PROCESS_MAP) =>
        /\ last.exc = "ValueError"
        /\ ~alive
        /\ DEFAULT_PROCESS_MAP = DefaultProcessMap
        /\ \A T \in DOMAIN DEFAULT_PROCESS_MAP :
              T \in DOMAIN last.pm /\ last.pm[T] = DEFAULT_PROCESS_MAP[T]
        /\ \A n \in 1..Len(plugins) :
              plugins[n].data_type \in DOMAIN DEFAULT_PROCESS_MAP =>
                  \A k \in DOMAIN last.pm : last.pm[k] # plugins[n]

\* a plugin list whose second plugin declares dict was refused: ValueError,
\* no Serializer, the dict entry still the default one
DefaultConflictSeen ==
    /\ last.op = "init"
    /\ plugins = <<MockPlugin, MyDictProcessor>>
    /\ last.exc = "ValueError"
    /\ ~alive
    /\ last.pm[DictT] = DictProcessor

\* C6: constructing a Serializer with a plugin list in which two plugins
\* declare the same data type raises ValueError at construction time.
DuplicatePluginRaises ==
    (/\ last.op = "init"
     /\ \E i, j \in 1..Len(plugins) : i < j /\ plugins[i].data_type = plugins[j].data_type) =>
        (last.exc = "ValueError" /\ ~alive)

\* two plugins declaring one type were both accepted; the second replaced the
\* first under the string of the type
DuplicatePluginAccepted ==
    /\ last.op = "init"
    /\ plugins = <<BertOutputProcessor, SecondBertOutputProcessor>>
    /\ last.exc = ""
    /\ alive
    /\ process_map[StrOfType(BertOutput)] = SecondBertOutputProcessor

\* C7: for a plugin P with declared type T that has no default processor,
\* serialize of a value whose exact type is T ends as P's call on it ends,
\* and deserialize of a node whose type key resolves to T ends as P's call
\* on the node ends.
PluginDispatch ==
    /\ (/\ last.op = "serialize"
        /\ last.mode = SAVE
        /\ data.t \notin DOMAIN DEFAULT_PROCESS_MAP
        /\ PluginsFor(data.t) # {}) =>
          \E P \in PluginsFor(data.t) :
              EndedAs(ExceptKeyError(Call(P, process_map, SAVE, last.before, data)))
    /\ (/\ last.op = "deserialize"
        /\ last.mode = LOAD
        /\ schema.t = DictT
        /\ DictHas(schema, PyStr(TYPE_FIELD))
        /\ Resolves(DictGet(schema, PyStr(TYPE_FIELD)).s)
        /\ _get_data_type(DictGet(schema, PyStr(TYPE_FIELD)).s) \notin DOMAIN DEFAULT_PROCESS_MAP
        /\ PluginsFor(_get_data_type(DictGet(schema, PyStr(TYPE_FIELD)).s)) # {}) =>
          \E P \in PluginsFor(_get_data_type(DictGet(schema, PyStr(TYPE_FIELD)).s)) :
              EndedAs(ExceptKeyError(Call(P, process_map, LOAD, last.before, schema)))

\* with BertOutputProcessor supplied, serialize of a BERT output was served by
\* the generic dataclass processor
PluginBypassed ==
    /\ last.op = "serialize"
    /\ last.mode = SAVE
    /\ plugins = <<BertOutputProcessor, BertEncoderOutputProcessor>>
    /\ data = model_output
    /\ last.exc = ""
    /\ DictGet(last.ret, PyStr(TYPE_FIELD)) = PyStr(get_schema_type(DataclassProcessor, data))

\* C8: for a plugin that subclasses the dataclass processor with a declared
\* type T outside the builtins, the type key written for a T value on save
\* resolves on load back to T, and the round trip returns an instance of T.
PluginTypeSurvives ==
    (/\ RoundTripped
     /\ is_dataclass(data)
     /\ \E P \in PluginsFor(data.t) : P.base = "ModelOutputProcessor") =>
        /\ Resolves(DictGet(last.arg, PyStr(TYPE_FIELD)).s)
        /\ _get_data_type(DictGet(last.arg, PyStr(TYPE_FIELD)).s) = data.t
        /\ last.exc = ""
        /\ last.ret.t = data.t

\* with BertOutputProcessor supplied, a BERT output was written under the
\* generic dataclass key and the round trip did not return a BERT output
PluginTypeLost ==
    /\ RoundTripped
    /\ plugins = <<BertOutputProcessor, BertEncoderOutputProcessor>>
    /\ data = model_output
    /\ DictGet(last.arg, PyStr(TYPE_FIELD)) = PyStr(get_schema_type(DataclassProcessor, data))
    /\ last.ret.t # BertOutput

\* C9: for every container whose metadata does not contain the schema key (a
\* map without the key, or no metadata at all) load raises the ValueError
\* "not a valid safetensors file" and never invokes deserialize.
InvalidContainerError ==
    (/\ last.op = "load"
     /\ \/ container.metadata.t = NoneType
        \/ ~DictHas(container.metadata, PyStr(SCHEMA_FIELD))) =>
        /\ last.exc = "ValueError"
        /\ last.why = "not a valid safetensors file"
        /\ ~last.called

\* load of a file without metadata raised TypeError
NoMetadataTypeError ==
    /\ last.op = "load"
    /\ container.metadata = PyNone
    /\ last.exc = "TypeError"
    /\ ~last.called

\* C10: the store handed to the write by save is never empty: when
\* serialization stored no array it is exactly {"null": [0]}; when it stored
\* at least one it is exactly those arrays, without the sentinel.
SentinelArray ==
    (last.op \in {"save", "save_patched"} /\ last.wrote) =>
        /\ Len(last.written.tensors.keys) > 0
        /\ Len(last.stored.keys) = 0 =>
              last.written.tensors = PyDict(<<PyStr("null")>>, <<NdArray(<<PyInt(0)>>)>>)
        /\ Len(last.stored.keys) > 0 =>
              /\ last.written.tensors = last.stored
              /\ ~DictHas(last.written.tensors, PyStr("null"))

\* save of a value without arrays wrote the sentinel alone
SentinelWritten ==
    /\ last.op = "save"
    /\ last.wrote
    /\ data = PyList(<<>>)
    /\ last.stored = EmptyDict
    /\ last.written.tensors = PyDict(<<PyStr("null")>>, <<NdArray(<<PyInt(0)>>)>>)

\* C11: for every successful save with user metadata M, the metadata written
\* holds the JSON encoding of the schema under the schema key, "1.0.0" under
\* the version key, and every entry of M under a non-reserved key unchanged;
\* an entry of M under a reserved key never replaces the schema or version.
PersistedMetadata ==
    (last.op \in {"save", "save_patched"} /\ last.wrote) =>
        /\ last.written.metadata.t = DictT
        /\ DictHas(last.written.metadata, PyStr(SCHEMA_FIELD))
        /\ DictGet(last.written.metadata, PyStr(SCHEMA_FIELD)) = JsonDumps(last.ret)
        /\ DictHas(last.written.metadata, PyStr(VERSION_FIELD))
        /\ DictGet(last.written.metadata, PyStr(VERSION_FIELD)) = PyStr("1.0.0")
        /\ \A n \in 1..Len(last.metadata.keys) :
              last.metadata.keys[n] \notin {PyStr(SCHEMA_FIELD), PyStr(VERSION_FIELD)} =>
                  /\ DictHas(last.written.metadata, last.metadata.keys[n])
                  /\ DictGet(last.written.metadata, last.metadata.keys[n]) = last.metadata.items[n]

\* a save whose caller put an entry of its own under the schema key wrote the
\* schema there, not the caller's entry
UserSchemaEntryReplaced ==
    /\ last.op = "save"
    /\ last.wrote
    /\ DictHas(last.metadata, PyStr(SCHEMA_FIELD))
    /\ DictGet(last.metadata, PyStr(SCHEMA_FIELD)) = PyStr("mine")
    /\ DictGet(last.written.metadata, PyStr(SCHEMA_FIELD)) = JsonDumps(last.ret)
    /\ DictGet(last.written.metadata, PyStr(SCHEMA_FIELD)) # PyStr("mine")

\* C12: serialize of a value whose exact type has no registered processor and
\* which is not a dataclass (instances of subclasses of registered types
\* included) raises TypeError "processor not found" and returns no schema;
\* deserialize of a node whose type key resolves to a type with no registered
\* processor raises the same error.
ProcessorNotFound ==
    /\ (/\ last.op = "serialize"
        /\ data.t \notin DOMAIN last.pm
        /\ ~is_dataclass(data)) =>
          /\ last.exc = "TypeError"
          /\ last.why = "processor not found"
          /\ last.ret = PyNone
          /\ tensors = last.before
    /\ (/\ last.op = "deserialize"
        /\ schema.t = DictT
        /\ DictHas(schema, PyStr(TYPE_FIELD))
        /\ Resolves(DictGet(schema, PyStr(TYPE_FIELD)).s)
        /\ _get_data_type(DictGet(schema, PyStr(TYPE_FIELD)).s) \notin DOMAIN last.pm) =>
          /\ last.exc = "TypeError"
          /\ last.why = "processor not found"
          /\ last.ret = PyNone
          /\ tensors = last.before

\* serialize of an OrderedDict, whose base class dict has a processor, raised
\* TypeError "processor not found"
SubclassNotFound ==
    /\ last.op = "serialize"
    /\ last.mode = SAVE
    /\ data = ordered_dict
    /\ DictT \in DOMAIN last.pm
    /\ last.exc = "TypeError"
    /\ last.why = "processor not found"

\* the type whose processor deserialize dispatches for the node, when the
\* node has a type key that resolves to a registered type
DispatchesOnLoad(pm, node) ==
    /\ node.t = DictT
    /\ DictHas(node, PyStr(TYPE_FIELD))
    /\ DictGet(node, PyStr(TYPE_FIELD)).t = StrT
    /\ Resolves(DictGet(node, PyStr(TYPE_FIELD)).s)
    /\ _get_data_type(DictGet(node, PyStr(TYPE_FIELD)).s) \in DOMAIN pm

\* C13: dispatching a processor while the mode is unset, or holds a value
\* other than SAVE or LOAD, raises ValueError, produces neither a schema node
\* nor a value, and leaves the array store as it was.
ModeMustBeSet ==
    (/\ last.mode \notin {SAVE, LOAD}
     /\ \/ last.op = "serialize" /\ SerializeType(last.pm, data) \in DOMAIN last.pm
        \/ last.op \in {"deserialize", "deserialize_back"} /\ DispatchesOnLoad(last.pm, last.arg)) =>
        /\ last.exc = "ValueError"
        /\ last.why = "mode not recognized"
        /\ last.ret = PyNone
        /\ tensors = last.before

\* serialize of 1 on a freshly constructed Serializer raised ValueError
UnsetModeRaises ==
    /\ last.op = "serialize"
    /\ last.mode = NoMode
    /\ data = PyInt(1)
    /\ last.exc = "ValueError"
    /\ tensors = EmptyDict

\* what a save pass leaves: the outcome o of the same call on a fresh Serializer
SameSavePass(o) ==
    /\ last.exc = o.exc /\ last.ret = o.ret
    /\ last.wrote = o.wrote /\ last.stored = o.stored /\ last.written = o.written
    /\ tensors = o.tensors

\* what a load pass leaves: the outcome r of the same call on a fresh Serializer
SameLoadPass(r) ==
    /\ last.exc = r.exc /\ last.ret = r.ret
    /\ tensors = r.tensors

\* the last pass gave what the same call gives on a Serializer with an empty store
SameAsFresh ==
    /\ last.op = "save" =>
           SameSavePass(Save(last.pm, EmptyDict, last.arg, last.metadata))
    /\ last.op = "save_patched" =>
           SameSavePass(SaveOutcome(mock_serialize_with_tensor(EmptyDict), last.metadata))
    /\ last.op \in {"load", "load_saved"} =>
           SameLoadPass(Load(last.pm, EmptyDict, last.written))

\* a step that records a save pass leaves mode SAVE, one that records a load
\* pass leaves mode LOAD, whatever the mode was
ModeOfPass ==
    /\ last' # last /\ last'.op \in {"save", "save_patched"} => mode' = SAVE
    /\ last' # last /\ last'.op \in {"load", "load_saved"} => mode' = LOAD

\* C14: no leakage from pass to pass. Whatever the store held and whatever the
\* mode was before, a save runs in mode SAVE from an empty store and a load in
\* mode LOAD from an empty store: the schema, the arrays stored, the file
\* written, the result returned, the store and the mode left behind are those
\* the same call gives on a Serializer whose store is empty.
NoLeakage == [] SameAsFresh /\ [][ModeOfPass]_vars

\* C14 witness: a save by a Serializer whose store still held the arrays of an
\* earlier pass, of data without arrays: only the sentinel is written.
SaveAfterUse ==
    /\ last.op = "save" /\ last.exc = "" /\ last.wrote
    /\ last.before # EmptyDict
    /\ DictHas(last.before, PyStr("mock_tensor_id"))
    /\ last.stored = EmptyDict
    /\ ~DictHas(last.written.tensors, PyStr("mock_tensor_id"))

\* the type key of a schema node
TypeKeyOf(node) == DictGet(node, PyStr(TYPE_FIELD))

ValueOf(node) == DictGet(node, PyStr(VALUE_FIELD))

\* the call just made was deserialize in LOAD mode of a node that dispatches
\* the record processor on a mapping of field names to nodes
RecordLoaded ==
    /\ last.op \in {"deserialize", "deserialize_back"} /\ last.mode = LOAD
    /\ DispatchesOnLoad(last.pm, last.arg)
    /\ last.pm[_get_data_type(TypeKeyOf(last.arg).s)] = DataclassProcessor
    /\ DictHas(last.arg, PyStr(VALUE_FIELD))
    /\ ValueOf(last.arg).t = DictT

\* the value returned is a generic record with the mapping's keys as fields, in
\* the mapping's order, each holding what deserialize returns for its node
GenericRecord(serialized) ==
    /\ last.exc = ""
    /\ last.ret.t = GenericDataclass
    /\ last.ret.t \notin {TestDC, BertOutput, BertEncoderOutput}
    /\ last.ret.keys = serialized.keys
    /\ Len(last.ret.items) = Len(serialized.items)
    /\ \A n \in 1..Len(serialized.items) :
           /\ Deserialize(last.pm, LOAD, last.before, serialized.items[n]).exc = ""
           /\ last.ret.items[n] = Deserialize(last.pm, LOAD, last.before, serialized.items[n]).ret

\* C16: the record processor's deserialize of a mapping of field names to
\* nodes returns an instance of a generic dataclass whose fields are exactly
\* the mapping's keys, in the mapping's order, each field holding the
\* recursively deserialized value of its node; the type is the generic record
\* type, not the type that was serialized.
GenericRecordReconstruction ==
    RecordLoaded => GenericRecord(ValueOf(last.arg))

\* what the code does for C16: the record is rebuilt when every field's node
\* deserializes, and the first exception of a field's node is raised otherwise
RecordOrFieldError ==
    RecordLoaded =>
        IF \A n \in 1..Len(ValueOf(last.arg).items) :
               Deserialize(last.pm, LOAD, last.before, ValueOf(last.arg).items[n]).exc = ""
        THEN GenericRecord(ValueOf(last.arg))
        ELSE \E n \in 1..Len(ValueOf(last.arg).items) :
               /\ last.exc = Deserialize(last.pm, LOAD, last.before, ValueOf(last.arg).items[n]).exc
               /\ last.exc # ""

\* C16 witness: anakin was serialized to a record node with the fields name
\* and chosen_one, and deserialize of that node raised TypeError instead of
\* returning a record: the str node of the first field cannot be loaded
RecordFieldRaises ==
    /\ RecordLoaded /\ last.op = "deserialize_back"
    /\ data = anakin
    /\ ValueOf(last.arg).keys = <<PyStr("name"), PyStr("chosen_one")>>
    /\ ValueOf(last.arg).items[1] = Node("str", PyStr("a"))
    /\ last.exc = "TypeError" /\ last.ret = PyNone

\* the extra fields of a schema node: every field other than the type key and
\* the value
ExtraFields(node) == DictWithout(DictWithout(node, PyStr(TYPE_FIELD)), PyStr(VALUE_FIELD))

\* the call just made was deserialize in LOAD mode of a node with a value
\* field, for which a processor was dispatched
LoadDispatched ==
    /\ last.op \in {"deserialize", "deserialize_back"} /\ last.mode = LOAD
    /\ DispatchesOnLoad(last.pm, last.arg)
    /\ DictHas(last.arg, PyStr(VALUE_FIELD))

\* C17: in LOAD mode, dispatching a schema node calls the processor's
\* deserialize with the node's value field and, as keyword arguments, exactly
\* the node's extra fields (every field other than the type key and the
\* value); for a node with no extra fields deserialize receives the value and
\* nothing else.
LoadArguments ==
    LoadDispatched =>
        /\ LoadKwargs(last.arg) = ExtraFields(last.arg)
        /\ EndedAs(ProcDeserialize(last.pm[_get_data_type(TypeKeyOf(last.arg).s)], last.pm, LOAD,
                                   last.before, ValueOf(last.arg), ExtraFields(last.arg)))

\* C17 witness: deserialize of the hand-written node {"type": "int", "value":
\* "1"}, which has no extra fields; the keywords built for IntProcessor's
\* deserialize hold the type key, and the call raised TypeError
LoadTypePassed ==
    /\ LoadDispatched /\ last.op = "deserialize"
    /\ last.arg = Node("int", PyStr("1"))
    /\ ExtraFields(last.arg) = EmptyDict
    /\ LoadKwargs(last.arg) = PyDict(<<PyStr(TYPE_FIELD)>>, <<PyStr("int")>>)
    /\ last.exc = "TypeError" /\ last.why = "unexpected keyword argument"

\* the call just made was a dispatch in SAVE mode of a processor whose
\* serialize returned, and whose serialize_extra returned extra
SaveDispatched(extra) ==
    /\ last.op = "call" /\ last.mode = SAVE
    /\ ProcSerialize(last.proc, last.pm, SAVE, last.before, last.arg).exc = ""
    /\ ProcSerializeExtra(last.proc, last.pm, SAVE, last.before, last.arg).exc = ""
    /\ ProcSerializeExtra(last.proc, last.pm, SAVE, last.before, last.arg).ret = extra

\* the extra fields break the contract of serialize_extra
BrokenBy(extra) ==
    \/ extra.t # DictT
    \/ DictHas(extra, PyStr(TYPE_FIELD))
    \/ DictHas(extra, PyStr(VALUE_FIELD))
    \/ \E n \in 1..Len(extra.keys) : extra.keys[n].t # StrT

\* the exception the contract names for the extra fields
ContractError(extra) ==
    IF extra.t # DictT THEN "TypeError"
    ELSE IF DictHas(extra, PyStr(TYPE_FIELD)) \/ DictHas(extra, PyStr(VALUE_FIELD)) THEN "KeyError"
    ELSE "TypeError"

\* C18: in SAVE mode, a processor whose serialize_extra returns a non-mapping,
\* a mapping with the key "type" or "value", or a mapping with a key that is
\* not a string makes the dispatch raise TypeError, KeyError, TypeError
\* respectively; no node is returned, with or without the offending fields.
ContractEnforced ==
    \A proc \in ContractProcessors :
        (last.proc = proc /\ SaveDispatched(OverloadedExtra(proc)) /\ BrokenBy(OverloadedExtra(proc))) =>
            /\ last.exc = ContractError(OverloadedExtra(proc))
            /\ last.ret = PyNone

\* C18 witness: the dispatch of the processor whose serialize_extra returns
\* {"value": "x"} for anakin raised KeyError and returned no node
ContractErrorSeen ==
    /\ SaveDispatched(PyDict(<<PyStr(VALUE_FIELD)>>, <<PyStr("x")>>))
    /\ last.proc = ValueExtraProcessor
    /\ data = anakin
    /\ last.exc = "KeyError" /\ last.ret = PyNone

\* the type key k is none of: a null synonym, the generic-record marker, a
\* built-in name, the dotted path of a class that can be imported
Unresolvable(k) ==
    /\ k \notin {"None", "NoneType"}
    /\ k # get_import_path(DataclassProcessor.data_type)
    /\ k \notin BuiltinNames
    /\ \A T \in ImportWorld : k # T.module \o "." \o T.name

\* C19: deserialize of a node whose type key is not a null synonym, not the
\* generic-record marker, not a built-in name and not a resolvable dotted path
\* raises ImportError and returns no value; no processor is dispatched for
\* the node: the outcome is the same whatever the mode, the unset mode
\* included, and the store is left as it was.
UnresolvableTypeKey ==
    (/\ last.op \in {"deserialize", "deserialize_back"}
     /\ last.arg.t = DictT /\ DictHas(last.arg, PyStr(TYPE_FIELD))
     /\ TypeKeyOf(last.arg).t = StrT
     /\ Unresolvable(TypeKeyOf(last.arg).s)) =>
        /\ last.exc = "ImportError"
        /\ last.ret = PyNone
        /\ tensors = last.before

\* the call just made was deserialize of the hand-written node with type key
\* k, and it raised ImportError
ImportErrorFor(k) ==
    /\ last.op = "deserialize" /\ last.arg = Node(k, PyNone)
    /\ Unresolvable(k)
    /\ last.exc = "ImportError"

\* C19 witness: a type key whose module does not exist raised ImportError
\* while the mode was unset, where a dispatched processor raises ValueError
ImportErrorSeen ==
    /\ ImportErrorFor("no_such_module.Name")
    /\ last.mode = NoMode

\* C20: one call of serialize on an array terminates, enters process_tensor
\* (after to_cpu and to_numpy) exactly once, and grows the array store by
\* exactly one entry.
ArraySerializeOnce ==
    (last.op = "serialize" /\ last.mode = SAVE /\ data.t = NdarrayT) =>
        /\ last.exc = ""
        /\ process_tensor_calls(0) = 1
        /\ Len(tensors.keys) = Len(last.before.keys) + 1

\* C20 witness: serialize of the array A0 entered process_tensor again from
\* the serialize that process_tensor calls, raised RecursionError and left
\* the store as it was
ArraySerializeUnbounded ==
    /\ last.op = "serialize" /\ last.mode = SAVE
    /\ data = A0
    /\ last.exc = "RecursionError"
    /\ process_tensor_calls(0) > 1
    /\ tensors = last.before

\* the outcome of serializer.serialize for child n of the value just serialized
ChildNode(n) == Serialize(last.pm, SAVE, last.before, last.arg.items[n])

\* the outcome of serializer.deserialize for node n of the sequence or
\* mapping seq held by the node just deserialized
ChildValue(seq, n) == Deserialize(last.pm, LOAD, last.before, seq[n])

\* the call just made raised what the first child that raises raises
RaisedByFirst(excs) ==
    \E n \in 1..Len(excs) :
        /\ excs[n] # "" /\ \A m \in 1..(n - 1) : excs[m] = ""
        /\ last.exc = excs[n]

\* serialize of a list or tuple: node n of the schema sequence is the node of
\* child n, and the first child that raises ends the call
SavedInOrder ==
    (last.op = "serialize" /\ last.mode = SAVE /\ last.arg.t \in {ListT, TupleT}) =>
        IF \A n \in 1..Len(last.arg.items) : ChildNode(n).exc = ""
        THEN /\ last.exc = ""
             /\ ValueOf(last.ret).t = ListT
             /\ ValueOf(last.ret).items = [n \in 1..Len(last.arg.items) |-> ChildNode(n).ret]
        ELSE RaisedByFirst([n \in 1..Len(last.arg.items) |-> ChildNode(n).exc])

\* deserialize of a list or tuple node: element n of the result is the value
\* of node n, and the first node that raises ends the call
LoadedInOrder ==
    (/\ last.op \in {"deserialize", "deserialize_back"} /\ last.mode = LOAD
     /\ DispatchesOnLoad(last.pm, last.arg)
     /\ _get_data_type(TypeKeyOf(last.arg).s) \in {ListT, TupleT}
     /\ DictHas(last.arg, PyStr(VALUE_FIELD)) /\ ValueOf(last.arg).t = ListT) =>
        IF \A n \in 1..Len(ValueOf(last.arg).items) : ChildValue(ValueOf(last.arg).items, n).exc = ""
        THEN /\ last.exc = ""
             /\ last.ret.t = _get_data_type(TypeKeyOf(last.arg).s)
             /\ last.ret.items = [n \in 1..Len(ValueOf(last.arg).items) |->
                                     ChildValue(ValueOf(last.arg).items, n).ret]
        ELSE RaisedByFirst([n \in 1..Len(ValueOf(last.arg).items) |->
                               ChildValue(ValueOf(last.arg).items, n).exc])

\* serialize of a record: the value holds the fields in declaration order,
\* each with the node of its value
FieldsInOrder ==
    (/\ last.op = "serialize" /\ last.mode = SAVE /\ is_dataclass(last.arg)
     /\ last.arg.t \notin DOMAIN last.pm /\ last.exc = "") =>
        /\ ValueOf(last.ret).keys = last.arg.keys
        /\ ValueOf(last.ret).items = [n \in 1..Len(last.arg.items) |-> ChildNode(n).ret]

\* C21: the children of a list or tuple are serialized in input order and
\* appear in the schema sequence in that order; on load the nodes of the
\* sequence are deserialized in sequence order and element i of the result
\* comes from node i; record fields are serialized in declaration order.
ChildOrder == SavedInOrder /\ LoadedInOrder /\ FieldsInOrder

\* C21 witness: the list ["a", 1] was serialized to the nodes of "a" and 1 in
\* that order
ChildOrderSeen ==
    /\ last.op = "serialize" /\ last.mode = SAVE /\ last.exc = ""
    /\ last.arg = PyList(<<PyStr("a"), PyInt(1)>>)
    /\ ValueOf(last.ret).items = <<Node("str", PyStr("a")), Node("int", PyStr("1"))>>

\* the "keys" side-table of a dict node
KeysOf(node) == DictGet(node, PyStr(KEYS_FIELD))

\* the set of the elements of a sequence
Range(seq) == {seq[n] : n \in 1..Len(seq)}

\* the call just made was serialize in SAVE mode of a dict, and it returned
DictSerialized ==
    /\ last.op = "serialize" /\ last.mode = SAVE /\ last.arg.t = DictT /\ last.exc = ""

\* the value map and the side-table of the node returned have the key set
\* { str(k) : k in d }, with len(d) entries when the string forms are distinct
SameKeySet ==
    /\ ValueOf(last.ret).t = DictT
    /\ DictHas(last.ret, PyStr(KEYS_FIELD)) /\ KeysOf(last.ret).t = DictT
    /\ Range(ValueOf(last.ret).keys) = {PyStr(PyStrOf(k)) : k \in Range(last.arg.keys)}
    /\ Range(KeysOf(last.ret).keys) = Range(ValueOf(last.ret).keys)
    /\ DistinctStringForms(last.arg) =>
           /\ Len(ValueOf(last.ret).keys) = Len(last.arg.keys)
           /\ Len(KeysOf(last.ret).keys) = Len(last.arg.keys)

\* the entries under str(k), k the n-th key, are the nodes of the m-th item
EntriesFrom(n, m) ==
    /\ DictGet(ValueOf(last.ret), PyStr(PyStrOf(last.arg.keys[n]))) = ChildNode(m).ret
    /\ DictGet(KeysOf(last.ret), PyStr(PyStrOf(last.arg.keys[n])))
           = Serialize(last.pm, SAVE, last.before, last.arg.keys[m]).ret

\* the position of the last key of the dict with the string form of key n
LastWithForm(n) ==
    CHOOSE m \in 1..Len(last.arg.keys) :
        /\ PyStrOf(last.arg.keys[m]) = PyStrOf(last.arg.keys[n])
        /\ \A j \in (m + 1)..Len(last.arg.keys) :
               PyStrOf(last.arg.keys[j]) # PyStrOf(last.arg.keys[n])

\* C22 as stated: for every dict d the value map and the "keys" side-table of
\* its node have the key set { str(k) : k in d }, with value[str(k)] the node
\* of d[k] and keys[str(k)] the node of k, for every key k of d; both have
\* len(d) entries when the string forms are pairwise distinct.
MappingNodeShape ==
    DictSerialized =>
        /\ SameKeySet
        /\ \A n \in 1..Len(last.arg.keys) : EntriesFrom(n, n)

\* C22 amended: the key sets are as stated, and value[str(k)] and
\* keys[str(k)] are the nodes of the value and of the key of the last item in
\* iteration order whose key has the string form str(k); that item is k's own
\* when the string forms are pairwise distinct.
MappingNodeShapeLast ==
    DictSerialized =>
        /\ SameKeySet
        /\ \A n \in 1..Len(last.arg.keys) : EntriesFrom(n, LastWithForm(n))
        /\ DistinctStringForms(last.arg) => \A n \in 1..Len(last.arg.keys) : LastWithForm(n) = n

\* C22 witness: {1: True, "1": True} was serialized; the side-table entry
\* under "1" is the node of the str "1", not the node of the int 1
KeyNodeOfLast ==
    /\ DictSerialized
    /\ last.arg = PyDict(<<PyInt(1), PyStr("1")>>, <<PyBool(TRUE), PyBool(TRUE)>>)
    /\ DictGet(KeysOf(last.ret), PyStr("1")) = Node("str", PyStr("1"))
    /\ DictGet(KeysOf(last.ret), PyStr("1")) # Node("int", PyStr("1"))

\* the position of the last key of d with the string form of its key n
LastOf(d, n) ==
    CHOOSE m \in 1..Len(d.keys) :
        /\ PyStrOf(d.keys[m]) = PyStrOf(d.keys[n])
        /\ \A j \in (m + 1)..Len(d.keys) : PyStrOf(d.keys[j]) # PyStrOf(d.keys[n])

\* d is a dict without arrays, two keys of which have the same string form
Colliding(d) == d.t = DictT /\ Plain(d) /\ ~DistinctStringForms(d)

\* serialize of a colliding dict returns a node with one entry for each
\* string form, in the value map and in the side-table
CollisionSaved ==
    (last.op = "serialize" /\ last.mode = SAVE /\ Colliding(last.arg)) =>
        /\ last.exc = ""
        /\ Len(ValueOf(last.ret).keys) < Len(last.arg.keys)
        /\ Len(KeysOf(last.ret).keys) = Len(ValueOf(last.ret).keys)
        /\ \A n \in 1..Len(last.arg.keys) : EntriesFrom(n, LastOf(last.arg, n))

\* deserialize of that node returns the dict of the last item of each string
\* form; the other items are lost
CollisionLoaded ==
    (RoundTripped /\ Colliding(last.origin)) =>
        /\ last.exc = ""
        /\ last.ret.t = DictT
        /\ Range(last.ret.keys) =
               {last.origin.keys[LastOf(last.origin, n)] : n \in 1..Len(last.origin.keys)}
        /\ \A n \in 1..Len(last.origin.keys) :
               DictGet(last.ret, last.origin.keys[LastOf(last.origin, n)])
                   = last.origin.items[LastOf(last.origin, n)]

\* C23: serializing a dict with two distinct keys of the same string form
\* raises no error; the node holds a single entry for that string, whose
\* value and key both come from the last such item in iteration order, and
\* deserializing the node yields a dict with that item only.
SilentKeyCollision == CollisionSaved /\ CollisionLoaded

\* C23 witness: {1: True, "1": True} was serialized to a node with the single
\* entry "1", and deserialize of that node raised TypeError instead of
\* returning {"1": True}
CollisionLoadRaises ==
    /\ RoundTripped
    /\ last.origin = PyDict(<<PyInt(1), PyStr("1")>>, <<PyBool(TRUE), PyBool(TRUE)>>)
    /\ ValueOf(last.arg).keys = <<PyStr("1")>>
    /\ KeysOf(last.arg).items = <<Node("str", PyStr("1"))>>
    /\ last.exc = "TypeError" /\ last.ret = PyNone

\* the types with a default processor, the record marker type left out
DefaultTypes == (DOMAIN DEFAULT_PROCESS_MAP) \ {Dataclass}

\* the key of T is the bare name for a builtin and the dotted path otherwise,
\* and resolves back to T
KeyRoundTrip(T) ==
    /\ T.module = "builtins" => get_import_path(T) = T.name
    /\ T.module # "builtins" => get_import_path(T) = T.module \o "." \o T.name
    /\ Resolves(get_import_path(T))
    /\ _get_data_type(get_import_path(T)) = T

\* C24: for every type T with a default processor other than the record
\* marker type, the type key of T is the bare name when T is a builtin and
\* the dotted module path otherwise, and the key resolves back to T; "None"
\* and "NoneType" both resolve to the None type; the key serialize writes
\* for a value of type T is the key of T.
ResolverRoundTrip ==
    /\ DefaultTypes = {NoneType, BoolT, StrT, IntT, FloatT, ComplexT, ListT, SetT, TupleT, DictT, NdarrayT}
    /\ \A T \in DefaultTypes : KeyRoundTrip(T)
    /\ Resolves("None") /\ _get_data_type("None") = NoneType
    /\ Resolves("NoneType") /\ _get_data_type("NoneType") = NoneType
    /\ (last.op = "serialize" /\ last.mode = SAVE /\ last.exc = "" /\ last.arg.t \in DefaultTypes) =>
           /\ TypeKeyOf(last.ret) = PyStr(get_import_path(last.arg.t))
           /\ _get_data_type(TypeKeyOf(last.ret).s) = last.arg.t

\* C24 witness: serialize of a tuple wrote the bare key "tuple", and
\* deserialize of that node in LOAD mode dispatched the tuple processor,
\* which returned a tuple
TupleKeyResolved ==
    /\ RoundTripped /\ last.origin.t = TupleT
    /\ TypeKeyOf(last.arg) = PyStr("tuple")
    /\ _get_data_type("tuple") = TupleT
    /\ last.exc = "" /\ last.ret.t = TupleT

\* the call just made raised the ValueError of a dispatch that saw a mode
\* other than SAVE and LOAD
ModeNotRecognized == last.exc = "ValueError" /\ last.why = "mode not recognized"

\* no dispatch of a save or load pass sees a mode other than the pass's own,
\* whatever the mode was before the pass: a save of data without arrays
\* writes the nodes serialize gives in SAVE mode at every depth
ModeInPass ==
    /\ last.op \in {"save", "save_patched", "load", "load_saved"} => ~ModeNotRecognized
    /\ (last.op = "save" /\ Plain(last.arg)) =>
           /\ last.exc = "" /\ last.wrote
           /\ last.ret = Serialize(last.pm, SAVE, EmptyDict, last.arg).ret
    /\ last.op \in {"load", "load_saved"} =>
           last.exc = Load(last.pm, EmptyDict, last.written).exc

\* every entry of the store s is an entry of the store t
StoreKept(s, t) ==
    \A n \in 1..Len(s.keys) : DictHas(t, s.keys[n]) /\ DictGet(t, s.keys[n]) = s.items[n]

\* a step that records a call of serialize, of deserialize or of a processor
\* leaves the mode as it was and keeps every entry of the store
ModeKept ==
    (/\ last'.op \in {"serialize", "deserialize", "deserialize_back", "call"}
     /\ (last' # last \/ tensors' # tensors)) =>
        /\ mode' = mode
        /\ StoreKept(tensors, tensors')

\* C25: during one save every dispatch at every depth observes mode SAVE and
\* during one load every dispatch observes mode LOAD; serialize, deserialize
\* and the processors never change the mode and never clear the store.
ModeConstantInPass == [] ModeInPass /\ [][ModeKept]_vars

\* C25 witness: save of [[]] by a Serializer left in LOAD mode with a store
\* that held arrays wrote the list node with its inner list node
NestedSavedAfterLoad ==
    /\ last.op = "save" /\ last.mode = LOAD /\ last.before # EmptyDict
    /\ last.arg = PyList(<<PyList(<<>>)>>)
    /\ last.exc = "" /\ last.wrote
    /\ last.ret = Node("list", PyList(<<Node("list", PyList(<<>>))>>))

\* what self.serialize(data) of the save just made gave
RootSerialized == Serialize(last.pm, SAVE, EmptyDict, last.arg)

\* what load gave up to and including json.loads
SchemaLoaded == LoadSchema(LoadTensors(EmptyDict, last.written), last.written)

\* a save whose serialize raised wrote nothing and ended with that exception
NoPartialSave ==
    (last.op = "save" /\ RootSerialized.exc # "") =>
        /\ last.exc = RootSerialized.exc /\ last.why = RootSerialized.why
        /\ ~last.wrote
        /\ last.written = Container(EmptyDict, PyNone)
        /\ last.ret = PyNone

\* a load whose schema decoding or deserialize raised returned no value and
\* ended with that exception
NoPartialLoad ==
    /\ (last.op \in {"load", "load_saved"} /\ SchemaLoaded.exc # "") =>
           last.exc = SchemaLoaded.exc /\ last.ret = PyNone
    /\ (/\ last.op \in {"load", "load_saved"} /\ SchemaLoaded.exc = ""
        /\ Deserialize(last.pm, LOAD, SchemaLoaded.tensors, SchemaLoaded.ret).exc # "") =>
           /\ last.exc = Deserialize(last.pm, LOAD, SchemaLoaded.tensors, SchemaLoaded.ret).exc
           /\ last.ret = PyNone

\* C26: if serialization of the root value raises at any depth during save,
\* the persistence write is never invoked and the exception reaches the
\* caller; if schema decoding or deserialization raises during load, load
\* returns no value and the exception reaches the caller.
NoPartialResult == NoPartialSave /\ NoPartialLoad

\* C26 witness: save of [[array, 1]] raised the RecursionError of the array
\* two levels down and wrote no file
DeepFailureNotWritten ==
    /\ last.op = "save"
    /\ last.arg = PyList(<<PyList(<<A0, PyInt(1)>>)>>)
    /\ last.exc = "RecursionError"
    /\ ~last.wrote /\ last.written = Container(EmptyDict, PyNone)

\* the registry of a constructed Serializer is the same after a step
RegistryKept == alive /\ alive' => process_map' = process_map

\* the module-level registry and the other Serializer are as they were
\* before this Serializer was constructed
OthersUntouched ==
    /\ DEFAULT_PROCESS_MAP = DefaultProcessMap
    /\ other = FreshSerializer

\* C27: constructing a Serializer with plugins and running serialize,
\* deserialize, save and load on it leaves the module-level default
\* registry and every other Serializer's registry, array store and mode
\* unchanged, and after construction no operation changes the entries of
\* the Serializer's own registry
EngineIsolation == [] OthersUntouched /\ [][RegistryKept]_vars

\* a Serializer whose plugins are in its own registry has saved and loaded,
\* and the default registry and the other Serializer hold no plugin
IsolatedAfterUse ==
    /\ alive
    /\ Len(plugins) > 0
    /\ process_map # DefaultProcessMap
    /\ last.op = "load_saved"
    /\ OthersUntouched

\* how a call ended: the exception, the value returned, the file written
Ended(o) == [exc |-> o.exc, ret |-> o.ret, written |-> o.written]

\* how the call of a thread ends on a Serializer no other thread touches
EndsAlone(rec) ==
    IF rec.op = "save"
    THEN Ended(Save(process_map, EmptyDict, rec.arg, PyNone))
    ELSE Ended([written |-> Idle.written] @@ Load(process_map, EmptyDict, rec.arg))

\* the dispatch of every pass ran under the mode of the pass that assigned
\* Serializer.mode last, its own or not
ModeOfLastWriter ==
    \A t \in Threads :
        threads.of[t].ran # NoMode =>
            /\ threads.of[t].set_by \in Threads
            /\ threads.of[t].ran = PassMode(threads.of[threads.of[t].set_by].op)

\* a pass that ran without a step of the other thread in between ended as
\* it ends on a Serializer of its own
SerializedPassesAgree ==
    \A t \in Threads :
        threads.of[t].pc = "done" /\ threads.of[t].alone =>
            Ended(threads.of[t]) = EndsAlone(threads.of[t])

\* C28: a save pass and a load pass, or two save passes, on the same
\* Serializer are unsafe when their steps interleave: the mode and the store
\* are those of the Serializer, not of the pass, so a dispatch runs under the
\* mode the other pass assigned, and the other pass clears or extends the
\* store in the middle of a pass; only a pass that no step of the other
\* thread interrupts ends as it would alone
SameEngineUnsafe == ModeOfLastWriter /\ SerializedPassesAgree

\* the dispatch of a pass has run under the mode of the other pass
CrossModeDispatch ==
    \E t \in Threads :
        /\ threads.of[t].ran # NoMode
        /\ threads.of[t].ran # PassMode(threads.of[t].op)
        /\ threads.of[t].set_by # t

\* a load pass returned, for an id of its file, an array of the other file,
\* or failed to find the id after the other pass cleared the store
StaleArrayId ==
    \E t \in Threads :
        /\ threads.of[t].op = "load"
        /\ threads.of[t].pc = "done"
        /\ threads.of[t].ran = LOAD
        /\ EndsAlone(threads.of[t]).exc = ""
        /\ Ended(threads.of[t]) # EndsAlone(threads.of[t])

\* Serializer.deserialize found the processor of the node it was given
ProcessorFound ==
    /\ last.op = "deserialize"
    /\ schema.t = DictT
    /\ DictHas(schema, PyStr(TYPE_FIELD))
    /\ TypeKeyOf(schema).t = StrT
    /\ Resolves(TypeKeyOf(schema).s)
    /\ _get_data_type(TypeKeyOf(schema).s) \in DOMAIN last.pm

\* the caller got the error r
SameError(r) == last.exc = r.exc /\ last.why = r.why

\* what the processor that was found returned or raised
FoundProcessorCall ==
    Call(last.pm[_get_data_type(TypeKeyOf(schema).s)], last.pm, last.mode, last.before, schema)

\* C29: Serializer.deserialize raises the processor-not-found TypeError
\* only when the registry has no entry for the type of the node; an error
\* raised inside the processor that was found, such as the KeyError for an
\* array id that is not in the store, reaches the caller as that error
OriginalErrorKept == ProcessorFound => SameError(FoundProcessorCall)

\* the processor was found and raised KeyError, and the caller was told
\* that no processor was found
KeyErrorReportedAsNotFound ==
    /\ ProcessorFound
    /\ last.mode = LOAD
    /\ TypeKeyOf(schema).s = "numpy.ndarray"
    /\ ~DictHas(last.before, ValueOf(schema))
    /\ last.exc = "TypeError"
    /\ last.why = "processor not found"

\* C30: Serializer.save leaves the mapping the caller passed as metadata
\* with exactly the entries it had before the call, whether save returned
\* or raised; the schema and version entries are only in what is written
CallerMetadataKept ==
    last.op \in {"save", "save_patched"} => metadata = last.metadata

\* save returned, and the caller's mapping, which had no schema entry, now
\* holds the schema and version entries that were written
CallerMetadataUpdated ==
    /\ last.op \in {"save", "save_patched"}
    /\ last.exc = ""
    /\ last.wrote
    /\ last.metadata.t = DictT
    /\ ~DictHas(last.metadata, PyStr(SCHEMA_FIELD))
    /\ metadata.t = DictT
    /\ DictHas(metadata, PyStr(SCHEMA_FIELD))
    /\ DictHas(metadata, PyStr(VERSION_FIELD))
    /\ metadata = last.written.metadata

====
